---- MODULE Spec2Model ----
(***************************************************************************)
(* Voice assistant core of intakeq-api: the intent classifier and slot     *)
(* extractors of CommandProcessor (src/src/voice/command-processor.ts) and *)
(* the workflows of VoiceAssistantApi (src/src/voice/voice-assistant-api.ts)*)
(* run against a nondeterministic directory collaborator.                  *)
(*                                                                         *)
(* Text is modelled by TLA+ strings, character by character: Len, SubSeq   *)
(* and \o are the string operations, and every regular expression of the   *)
(* source is an operator that computes the match the JavaScript engine     *)
(* finds (leftmost start, greedy/lazy quantifiers, alternatives in order). *)
(***************************************************************************)
EXTENDS Integers, Sequences, FiniteSets, TLC

(***************************************************************************)
(* Characters and strings                                                  *)
(***************************************************************************)
LowerAlphabet == "abcdefghijklmnopqrstuvwxyz"
UpperAlphabet == "ABCDEFGHIJKLMNOPQRSTUVWXYZ"
DigitAlphabet == "0123456789"

CharsOf(s) == { SubSeq(s, i, i) : i \in 1..Len(s) }

UpperLetters == CharsOf(UpperAlphabet)
Letter == CharsOf(LowerAlphabet) \cup UpperLetters
Digit == CharsOf(DigitAlphabet)
Space == {" "}
WordChar == Letter \cup Digit \cup {"_"}
\* s[i] of JavaScript, 1-based here; "" outside the string
Ch(s, i) == IF i >= 1 /\ i <= Len(s) THEN SubSeq(s, i, i) ELSE ""

\* the substring s.substring(i-1, j-1): characters i .. j-1, clipped to s
Sub(s, i, j) ==
  LET a == IF i < 1 THEN 1 ELSE i
      b == IF j > Len(s) + 1 THEN Len(s) + 1 ELSE j
  IN  IF b <= a THEN "" ELSE SubSeq(s, a, b - 1)

\* pat occurs in s starting at position i
At(s, i, pat) ==
  /\ i >= 1
  /\ i + Len(pat) - 1 <= Len(s)
  /\ SubSeq(s, i, i + Len(pat) - 1) = pat

\* String.prototype.includes
Includes(s, pat) == \E i \in 1..(Len(s) - Len(pat) + 1) : At(s, i, pat)

\* first position >= i whose character is not in class (Len(s)+1 if none)
RECURSIVE Span(_, _, _)
Span(s, i, class) ==
  IF i <= Len(s) /\ Ch(s, i) \in class THEN Span(s, i + 1, class) ELSE i

Min(S) == CHOOSE x \in S : \A y \in S : x <= y
Max(S) == CHOOSE x \in S : \A y \in S : x >= y

\* String.prototype.toLowerCase
RECURSIVE toLowerCase(_)
toLowerCase(s) ==
  LET
    LowerChar(c) ==
      IF c \in UpperLetters
        THEN LET k == CHOOSE i \in 1..26 : SubSeq(UpperAlphabet, i, i) = c
             IN  SubSeq(LowerAlphabet, k, k)
        ELSE c
  IN  IF s = "" THEN "" ELSE LowerChar(Head(s)) \o toLowerCase(Tail(s))

\* String.prototype.trim
trim(s) ==
  LET a == Span(s, 1, Space)
      E == { j \in a..Len(s) : Ch(s, j) \notin Space }
  IN  IF E = {} THEN "" ELSE SubSeq(s, a, Max(E))

\* parseInt / Number of a string of decimal digits
RECURSIVE ParseDigits(_)
ParseDigits(s) ==
  LET
    DigitValue(c) == (CHOOSE i \in 1..10 : SubSeq(DigitAlphabet, i, i) = c) - 1
  IN  IF s = "" THEN 0
      ELSE ParseDigits(SubSeq(s, 1, Len(s) - 1)) * 10 + DigitValue(Ch(s, Len(s)))

(***************************************************************************)
(* Regular expressions.  Every pattern of the source is an operator that   *)
(* tries the pattern at one start position and yields what the code reads  *)
(* from the match (capture group 1, or match[0] in extractDateTime), or    *)
(* Undefined when the pattern does not match there.  The extractors are    *)
(* applied to the text extractIntent has lower-cased, so the i flag of the *)
(* patterns changes nothing and keywords are compared in lower case.       *)
(***************************************************************************)
Undefined == "<undefined>"

\* the engine tries start positions left to right and keeps the first match;
\* tried[i] is what the pattern yields at start position i
LeftmostMatch(tried) ==
  LET Pick(I) == IF I = {} THEN Undefined ELSE tried[Min(I)]
  IN  Pick({ i \in DOMAIN tried : tried[i] # Undefined })

\* first keyword of kws (a sequence, in alternation order) found at i, or ""
FirstAt(s, i, kws) ==
  LET Pick(K) == IF K = {} THEN "" ELSE kws[Min(K)]
  IN  Pick({ k \in 1..Len(kws) : At(s, i, kws[k]) })

\* position after the blanks that start at j
SkipSpace(s, j) == Span(s, j, Space)

\* [A-Za-z]+(?:\s+[A-Za-z]+)*  greedy, from i: end of the longest chain
RECURSIVE GreedyWordsEnd(_, _)
GreedyWordsEnd(s, i) ==
  LET Words(e) ==
        LET Blanks(sp) ==
              IF sp > e /\ Ch(s, sp) \in Letter THEN GreedyWordsEnd(s, sp) ELSE e
        IN  Blanks(SkipSpace(s, e))
  IN  Words(Span(s, i, Letter))

\* [A-Za-z]+(?:\s+[A-Za-z]+)*?(?:\s+(?:t1|t2|..))  lazy, from i: the end of
\* the shortest chain that is followed by blanks and a terminator, 0 if none
RECURSIVE LazyWordsEnd(_, _, _)
LazyWordsEnd(s, i, terms) ==
  LET Words(e) ==
        LET Blanks(sp) ==
              IF e = i \/ sp = e THEN 0
              ELSE IF FirstAt(s, sp, terms) # "" THEN e
              ELSE IF Ch(s, sp) \in Letter THEN LazyWordsEnd(s, sp, terms)
              ELSE 0
        IN  Blanks(SkipSpace(s, e))
  IN  Words(Span(s, i, Letter))

\* keyword, blanks, then the greedy chain of words: the chain, or Undefined
KeywordThenWords(s, i, kws) ==
  LET AfterKeyword(kw) ==
        LET Group(sp) ==
              IF kw # "" /\ sp > i + Len(kw) /\ Ch(s, sp) \in Letter
              THEN Sub(s, sp, GreedyWordsEnd(s, sp))
              ELSE Undefined
        IN  Group(SkipSpace(s, i + Len(kw)))
  IN  AfterKeyword(FirstAt(s, i, kws))

(***************************************************************************)
(* Slots.  A slot the extractor did not fill is undefined; JavaScript      *)
(* treats undefined and the empty string alike in `if (!slot)`.            *)
(***************************************************************************)
Truthy(v) == v # Undefined /\ v # ""

NoParams ==
  [clientName |-> Undefined, clientEmail |-> Undefined,
   appointmentId |-> Undefined, dateTime |-> Undefined, date |-> Undefined,
   serviceName |-> Undefined, practitionerName |-> Undefined]

\* match[1].trim() if the pattern matched
Trimmed(group) == IF group = Undefined THEN Undefined ELSE trim(group)

(***************************************************************************)
(* CommandProcessor.extractDateTime                                        *)
(***************************************************************************)
\* number of digits \d{lo,hi} takes greedily at k (0 if fewer than lo)
DigitsTaken(s, k, lo, hi) ==
  LET Take(n) == IF n < lo THEN 0 ELSE IF n > hi THEN hi ELSE n
  IN  Take(Span(s, k, Digit) - k)

\* (?::\d{2})? at a: position after it
SkipMinutes(s, a) ==
  IF Ch(s, a) = ":" /\ Ch(s, a + 1) \in Digit /\ Ch(s, a + 2) \in Digit
  THEN a + 3 ELSE a

\* an optional prefix word followed by blanks: position after it, or k
SkipOptional(s, k, word) ==
  LET After(sp) == IF At(s, k, word) /\ sp > k + Len(word) THEN sp ELSE k
  IN  After(SkipSpace(s, k + Len(word)))

\* /(?:at\s+)?(\d{1,2}(?::\d{2})?\s*(?:am|pm))/i
TryClock(s, i) ==
  LET
    \* \s*(?:am|pm) at b: position after it, or 0
    MeridiemEnd(b) ==
      LET After(q) == IF FirstAt(s, q, <<"am", "pm">>) # "" THEN q + 2 ELSE 0
      IN  After(SkipSpace(s, b))

    \* \d{1,2}(?::\d{2})?\s*(?:am|pm) with exactly d digits at k: its end, or 0
    ClockEndWith(k, d) ==
      IF \A x \in 0..(d - 1) : Ch(s, k + x) \in Digit
      THEN MeridiemEnd(SkipMinutes(s, k + d))
      ELSE 0

    \* two digits are tried before one
    ClockCoreEnd(k) ==
      LET Or(e2) == IF e2 # 0 THEN e2 ELSE ClockEndWith(k, 1)
      IN  Or(ClockEndWith(k, 2))
  IN  LET End(e) == IF e # 0 THEN Sub(s, i, e) ELSE Undefined
      IN  End(ClockCoreEnd(SkipOptional(s, i, "at")))

\* /(?:on\s+)?(\w+day)/i
TryWeekday(s, i) ==
  LET
    \* \w+day from k: \w+ runs to the last "day" of the run of word characters
    WeekdayCoreEnd(k) ==
      LET Last(D) == IF D = {} THEN 0 ELSE Max(D) + 3
      IN  Last({ d \in (k + 1)..(Span(s, k, WordChar) - 3) : At(s, d, "day") })
  IN  LET End(e1) ==
            LET Or(e) == IF e # 0 THEN Sub(s, i, e) ELSE Undefined
            IN  Or(IF e1 # 0 THEN e1 ELSE WeekdayCoreEnd(i))
      IN  End(WeekdayCoreEnd(SkipOptional(s, i, "on")))

\* /(\d{1,2}\/\d{1,2}(?:\/\d{2,4})?)/
TrySlashDate(s, i) ==
  LET
    \* \/\d{1,2}(?:\/\d{2,4})? at a (a is the position of the first slash)
    SlashTailEnd(a) ==
      LET Day(n) ==
            LET Year(y) ==
                  IF Ch(s, a) # "/" \/ n = 0 THEN 0
                  ELSE IF y # 0 THEN a + 1 + n + 1 + y
                  ELSE a + 1 + n
            IN  Year(IF Ch(s, a + 1 + n) = "/" THEN DigitsTaken(s, a + 2 + n, 2, 4) ELSE 0)
      IN  Day(DigitsTaken(s, a + 1, 1, 2))
  IN  LET End(e) == IF e # 0 THEN Sub(s, i, e) ELSE Undefined
      IN  End(IF Ch(s, i) \in Digit /\ Ch(s, i + 1) \in Digit /\ Ch(s, i + 2) = "/"
                THEN SlashTailEnd(i + 2)
              ELSE IF Ch(s, i) \in Digit THEN SlashTailEnd(i + 1)
              ELSE 0)

\* /(\w+\s+\d{1,2}(?:st|nd|rd|th)?)/i
TryMonthDay(s, i) ==
  LET Word(r) ==
        LET Blanks(sp) ==
              LET Day(n) ==
                    IF r = i \/ sp = r \/ n = 0 THEN Undefined
                    ELSE IF FirstAt(s, sp + n, <<"st", "nd", "rd", "th">>) # ""
                      THEN Sub(s, i, sp + n + 2)
                    ELSE Sub(s, i, sp + n)
              IN  Day(DigitsTaken(s, sp, 1, 2))
        IN  Blanks(SkipSpace(s, r))
  IN  Word(Span(s, i, WordChar))

TryToday(s, i) == IF At(s, i, "today") THEN Sub(s, i, i + 5) ELSE Undefined

TryTomorrow(s, i) == IF At(s, i, "tomorrow") THEN Sub(s, i, i + 8) ELSE Undefined

\* the first of b and a that is defined
OrElse(a, b) == IF a # Undefined THEN a ELSE b

\* the six patterns in order; the first that matches gives match[0]
extractDateTime(text) ==
  OrElse(LeftmostMatch([i \in 1..Len(text) |-> TryToday(text, i)]),
  OrElse(LeftmostMatch([i \in 1..Len(text) |-> TryTomorrow(text, i)]),
  OrElse(LeftmostMatch([i \in 1..Len(text) |-> TryClock(text, i)]),
  OrElse(LeftmostMatch([i \in 1..Len(text) |-> TryWeekday(text, i)]),
  OrElse(LeftmostMatch([i \in 1..Len(text) |-> TrySlashDate(text, i)]),
         LeftmostMatch([i \in 1..Len(text) |-> TryMonthDay(text, i)]))))))

(***************************************************************************)
(* CommandProcessor.extract*Params                                         *)
(***************************************************************************)
RECURSIVE SpanNotAtOn(_, _)
SpanNotAtOn(s, i) ==
  LET
    \* [^at|on] under the i flag
    NotAtOn(c) == c # "" /\ c \notin {"a", "t", "|", "o", "n", "A", "T", "O", "N"}
  IN  IF NotAtOn(Ch(s, i)) THEN SpanNotAtOn(s, i + 1) ELSE i

extractScheduleParams(text) ==
  LET
    \* /(?:for|schedule|book)\s+([A-Za-z]+(?:\s+[A-Za-z]+)*?)(?:\s+(?:at|on|for|tomorrow|today))/i
    TryScheduleName1(s, i) ==
      LET AfterKeyword(kw) ==
            LET Group(sp) ==
                  LET End(e) == IF e # 0 THEN Sub(s, sp, e) ELSE Undefined
                  IN  IF kw # "" /\ sp > i + Len(kw)
                      THEN End(LazyWordsEnd(s, sp, <<"at", "on", "for", "tomorrow", "today">>))
                      ELSE Undefined
            IN  Group(SkipSpace(s, i + Len(kw)))
      IN  AfterKeyword(FirstAt(s, i, <<"for", "schedule", "book">>))

    \* /schedule\s+([A-Za-z]+(?:\s+[A-Za-z]+)*)/i
    TryScheduleName2(s, i) == KeywordThenWords(s, i, <<"schedule">>)

    \* /(?:for|appointment for)\s+([^at|on]+?)(?:\s+(?:at|on|with))/i
    \* \s+ takes as many blanks as leave a match for the rest
    TryServiceName(s, i) ==
      LET
        \* ([^at|on]+?)(?:\s+(?:at|on|with)) from st: end of the shortest group, or 0
        ServiceGroupEnd(st) ==
          LET Shortest(E) == IF E = {} THEN 0 ELSE Min(E)
          IN  Shortest({ e \in (st + 1)..SpanNotAtOn(s, st) :
                           /\ Ch(s, e) \in Space
                           /\ FirstAt(s, SkipSpace(s, e), <<"at", "on", "with">>) # "" })
      IN  LET AfterKeyword(kw) ==
                LET Blanks(j, n) ==
                      LET Start(K) ==
                            IF kw = "" \/ K = {} THEN Undefined
                            ELSE Sub(s, j + Max(K), ServiceGroupEnd(j + Max(K)))
                      IN  Start({ k \in 1..n : ServiceGroupEnd(j + k) # 0 })
                IN  Blanks(i + Len(kw), SkipSpace(s, i + Len(kw)) - (i + Len(kw)))
          IN  AfterKeyword(FirstAt(s, i, <<"for", "appointment for">>))
  IN  [NoParams EXCEPT
         !.clientName = Trimmed(OrElse(LeftmostMatch([i \in 1..Len(text) |-> TryScheduleName1(text, i)]),
                                       LeftmostMatch([i \in 1..Len(text) |-> TryScheduleName2(text, i)]))),
         !.dateTime = extractDateTime(text),
         !.serviceName = Trimmed(LeftmostMatch([i \in 1..Len(text) |-> TryServiceName(text, i)]))]

\* the first of the candidate positions that holds a character of class, or 0
FirstIn(s, class, c1, c2, c3, c4) ==
  IF Ch(s, c1) \in class THEN c1
  ELSE IF Ch(s, c2) \in class THEN c2
  ELSE IF Ch(s, c3) \in class THEN c3
  ELSE IF Ch(s, c4) \in class THEN c4
  ELSE 0

extractCancelParams(text) ==
  LET
    \* /(?:cancel|delete)\s+(?:appointment\s+)?(?:for\s+)?([A-Za-z]+(?:\s+[A-Za-z]+)*)/i
    \* the group starts after both optional parts, else after the first only,
    \* else after the second only, else after neither
    TryCancelName(s, i) ==
      LET AfterKeyword(kw) ==
            LET Blanks(sp) ==
                  LET AfterAppointment(a) ==
                        LET Group(st) ==
                              IF kw # "" /\ sp > i + Len(kw) /\ st # 0
                              THEN Sub(s, st, GreedyWordsEnd(s, st))
                              ELSE Undefined
                        IN  Group(FirstIn(s, Letter, SkipOptional(s, a, "for"), a,
                                          SkipOptional(s, sp, "for"), sp))
                  IN  AfterAppointment(SkipOptional(s, sp, "appointment"))
            IN  Blanks(SkipSpace(s, i + Len(kw)))
      IN  AfterKeyword(FirstAt(s, i, <<"cancel", "delete">>))

    \* /appointment\s+(?:id\s+)?([A-Za-z0-9-]+)/i
    TryAppointmentId(s, i) ==
      LET
        IdChar == Letter \cup Digit \cup {"-"}
      IN  LET Blanks(sp) ==
                LET Group(st) ==
                      IF At(s, i, "appointment") /\ sp > i + Len("appointment") /\ st # 0
                      THEN Sub(s, st, Span(s, st, IdChar))
                      ELSE Undefined
                IN  Group(FirstIn(s, IdChar, SkipOptional(s, sp, "id"), sp, sp, sp))
          IN  Blanks(SkipSpace(s, i + Len("appointment")))
  IN  [NoParams EXCEPT
         !.clientName = Trimmed(LeftmostMatch([i \in 1..Len(text) |-> TryCancelName(text, i)])),
         !.appointmentId = LeftmostMatch([i \in 1..Len(text) |-> TryAppointmentId(text, i)])]

extractRescheduleParams(text) == extractCancelParams(text)

\* /([a-zA-Z0-9._%+-]+@[a-zA-Z0-9.-]+\.[a-zA-Z]{2,})/
TryEmail(s, i) ==
  LET
    EmailLocalChar == Letter \cup Digit \cup {".", "_", "%", "+", "-"}

    EmailDomainChar == Letter \cup Digit \cup {".", "-"}

    \* @[a-zA-Z0-9.-]+\.[a-zA-Z]{2,} at a: the domain runs to its last dot that
    \* two letters follow; end of the match, or 0
    EmailDomainEnd(a) ==
      LET LastDot(D) == IF D = {} THEN 0 ELSE Span(s, Max(D) + 1, Letter)
      IN  IF Ch(s, a) # "@" THEN 0
          ELSE LastDot({ k \in (a + 2)..(Span(s, a + 1, EmailDomainChar) - 1) :
                           Ch(s, k) = "." /\ Span(s, k + 1, Letter) - (k + 1) >= 2 })
  IN  LET Local(a) ==
            LET End(e) == IF a > i /\ e # 0 THEN Sub(s, i, e) ELSE Undefined
            IN  End(EmailDomainEnd(a))
      IN  Local(Span(s, i, EmailLocalChar))

extractClientParams(text) ==
  LET
    \* /(?:find|look up|search for|client)\s+([A-Za-z]+(?:\s+[A-Za-z]+)*)/i
    TryClientName1(s, i) ==
      KeywordThenWords(s, i, <<"find", "look up", "search for", "client">>)

    \* /([A-Za-z]+(?:\s+[A-Za-z]+)*?)(?:\s+client)/i
    TryClientName2(s, i) ==
      LET End(e) == IF e # 0 THEN Sub(s, i, e) ELSE Undefined
      IN  End(LazyWordsEnd(s, i, <<"client">>))
  IN  [NoParams EXCEPT
         !.clientName = Trimmed(OrElse(LeftmostMatch([i \in 1..Len(text) |-> TryClientName1(text, i)]),
                                       LeftmostMatch([i \in 1..Len(text) |-> TryClientName2(text, i)]))),
         !.clientEmail = LeftmostMatch([i \in 1..Len(text) |-> TryEmail(text, i)])]

extractDateParams(text) == [NoParams EXCEPT !.date = extractDateTime(text)]

extractIntakeParams(text) ==
  LET
    \* /(?:intake|form|questionnaire)\s+([A-Za-z]+(?:\s+[A-Za-z]+)*)/i
    TryFormName(s, i) ==
      KeywordThenWords(s, i, <<"intake", "form", "questionnaire">>)
  IN  [NoParams EXCEPT
         !.clientEmail = LeftmostMatch([i \in 1..Len(text) |-> TryEmail(text, i)]),
         !.serviceName = Trimmed(LeftmostMatch([i \in 1..Len(text) |-> TryFormName(text, i)]))]

extractAvailabilityParams(text) ==
  [NoParams EXCEPT !.date = extractDateTime(text)]

(***************************************************************************)
(* Dates.  A Date is a local calendar day number and a minute of that day; *)
(* day 0 is a Sunday, so getDay() is day % 7.  An invalid Date (NaN time   *)
(* value) and the null of parseDateTime are the two records below.         *)
(***************************************************************************)
MinutesPerDay == 1440
InvalidDate == [day |-> -1, min |-> -1]
NullDate == [day |-> -2, min |-> -2]
DateOf(d, m) == [day |-> d, min |-> m]

getDay(date) == date.day % 7
getHours(date) == date.min \div 60
getMinutes(date) == date.min % 60

\* Date.prototype.setHours(hours, minutes, 0, 0): out-of-range values carry
setHours(date, hours, minutes) ==
  LET total == hours * 60 + minutes
  IN  DateOf(date.day + total \div MinutesPerDay, total % MinutesPerDay)

\* Date.prototype.getTime() / 1000, floored
UtcSeconds(date) == (date.day * MinutesPerDay + date.min) * 60

extractTime(str) ==
  LET
    \* VoiceAssistantApi.extractTime: /(\d{1,2})(?::(\d{2}))?\s*(am|pm)?/i
    NoTime == [ok |-> FALSE, hours |-> 0, minutes |-> 0]

    \* hours of the 12-hour clock with its am/pm (or "" when there is none)
    ClockHours(h, ampm) ==
      IF ampm = "pm" /\ h # 12 THEN h + 12
      ELSE IF ampm = "am" /\ h = 12 THEN 0
      ELSE h

    \* the match that starts at the digit at position i
    TimeAt(i) ==
      LET Hours(a) ==
            [ok |-> TRUE,
             hours |-> ClockHours(ParseDigits(Sub(str, i, a)),
                                  FirstAt(toLowerCase(str),
                                          SkipSpace(str, SkipMinutes(str, a)),
                                          <<"am", "pm">>)),
             minutes |-> IF SkipMinutes(str, a) > a
                         THEN ParseDigits(Sub(str, a + 1, a + 3)) ELSE 0]
      IN  Hours(i + DigitsTaken(str, i, 1, 2))
  IN  LET First(I) == IF I = {} THEN NoTime ELSE TimeAt(Min(I))
      IN  First({ i \in 1..Len(str) : Ch(str, i) \in Digit })

\* new Date(string) for a string that is not in the ISO format: the result
\* is implementation-defined.  No engine builds a date from a text without
\* a digit; for any other text the engine may reject it or read some date.
ParsedDateSamples == { DateOf(8, 0), DateOf(8, 600) }

\* what the engines may do with a text, each engine being the date it reads
\* from the texts it accepts
Engines == {InvalidDate} \cup ParsedDateSamples

\* new Date(str) under one engine
DateConstructor(str, engine) ==
  LET
    DateConstructorOutcomes ==
      IF \E i \in 1..Len(str) : Ch(str, i) \in Digit
      THEN {InvalidDate} \cup ParsedDateSamples
      ELSE {InvalidDate}
  IN  IF engine \in DateConstructorOutcomes THEN engine ELSE InvalidDate

\* a resolver that falls back to the current time
parseDateTimeOrNow(dateTimeStr, now, engine) ==
  LET Parse(str, time, parsed) ==
        IF Includes(str, "tomorrow") /\ time.ok
          THEN setHours(DateOf(now.day + 1, now.min), time.hours, time.minutes)
        ELSE IF Includes(str, "today") /\ time.ok
          THEN setHours(now, time.hours, time.minutes)
        ELSE IF parsed # InvalidDate THEN parsed
        ELSE now
  IN  Parse(toLowerCase(dateTimeStr), extractTime(toLowerCase(dateTimeStr)),
            DateConstructor(dateTimeStr, engine))

\* VoiceAssistantApi.parseDateTime; now is new Date()
parseDateTime(dateTimeStr, now, engine) ==
  LET Parse(str, time, parsed) ==
        IF Includes(str, "tomorrow") /\ time.ok
          THEN setHours(DateOf(now.day + 1, now.min), time.hours, time.minutes)
        ELSE IF Includes(str, "today") /\ time.ok
          THEN setHours(now, time.hours, time.minutes)
        ELSE IF parsed # InvalidDate THEN parsed
        ELSE NullDate
  IN  Parse(toLowerCase(dateTimeStr), extractTime(toLowerCase(dateTimeStr)),
            DateConstructor(dateTimeStr, engine))

\* "HH:MM".split(':').map(Number), first two parts
SplitHourMinute(hhmm) ==
  LET C  == { i \in 1..Len(hhmm) : Ch(hhmm, i) = ":" }
      c1 == IF C = {} THEN Len(hhmm) + 1 ELSE Min(C)
      C2 == { i \in C : i > c1 }
      c2 == IF C2 = {} THEN Len(hhmm) + 1 ELSE Min(C2)
  IN  <<ParseDigits(Sub(hhmm, 1, c1)), ParseDigits(Sub(hhmm, c1 + 1, c2))>>

\* the closing minute counted as open
isBusinessHoursInclusive(date, config) ==
  LET Within(day, timeInMinutes, start, end) ==
        /\ day \in config.businessHours.days
        /\ timeInMinutes >= start[1] * 60 + start[2]
        /\ timeInMinutes <= end[1] * 60 + end[2]
  IN  Within(getDay(date), getHours(date) * 60 + getMinutes(date),
             SplitHourMinute(config.businessHours.start),
             SplitHourMinute(config.businessHours.end))

\* VoiceAssistantApi.isBusinessHours
isBusinessHours(date, config) ==
  LET Within(day, timeInMinutes, start, end) ==
        /\ day \in config.businessHours.days
        /\ timeInMinutes >= start[1] * 60 + start[2]
        /\ timeInMinutes < end[1] * 60 + end[2]
  IN  Within(getDay(date), getHours(date) * 60 + getMinutes(date),
             SplitHourMinute(config.businessHours.start),
             SplitHourMinute(config.businessHours.end))

(***************************************************************************)
(* Speech formatting                                                       *)
(***************************************************************************)
DayNames == <<"Sunday", "Monday", "Tuesday", "Wednesday", "Thursday", "Friday", "Saturday">>

\* Array.prototype.join over a sequence of strings
RECURSIVE Join(_, _)
Join(strs, sep) ==
  IF Len(strs) = 0 THEN ""
  ELSE IF Len(strs) = 1 THEN strs[1]
  ELSE strs[1] \o sep \o Join(Tail(strs), sep)

\* the list without the slice
SliceAll(seq, n) == seq

\* Array.prototype.slice(0, n)
Slice(seq, n) == SubSeq(seq, 1, IF Len(seq) < n THEN Len(seq) ELSE n)

TwoDigits(n) == IF n < 10 THEN "0" \o ToString(n) ELSE ToString(n)

\* VoiceAssistantApi.formatTimeForSpeech: 12-hour clock, e.g. "3:00 PM"
formatTimeForSpeech(date) ==
  LET h   == getHours(date)
      h12 == IF h % 12 = 0 THEN 12 ELSE h % 12
  IN  ToString(h12) \o ":" \o TwoDigits(getMinutes(date))
        \o (IF h < 12 THEN " AM" ELSE " PM")

\* VoiceAssistantApi.formatDateForSpeech: weekday, calendar day, 12-hour
\* time.  The month and year of the calendar day are not computed: the day
\* is rendered by its number.
formatDateForSpeech(date) ==
  IF date = InvalidDate THEN "Invalid Date"
  ELSE DayNames[getDay(date) + 1] \o ", day " \o ToString(date.day)
         \o " at " \o formatTimeForSpeech(date)

\* VoiceAssistantApi.getBusinessHoursText
RECURSIVE SortedSeq(_)
SortedSeq(S) == IF S = {} THEN <<>> ELSE <<Min(S)>> \o SortedSeq(S \ {Min(S)})

getBusinessHoursText(config) ==
  LET ds == SortedSeq(config.businessHours.days)
  IN  Join([i \in 1..Len(ds) |-> DayNames[ds[i] + 1]], " through ")
        \o " from " \o config.businessHours.start
        \o " to " \o config.businessHours.end

(***************************************************************************)
(* CommandProcessor.extractIntent                                          *)
(***************************************************************************)
\* the trigger phrases extractIntent lists for each category
Patterns ==
  [SCHEDULE_APPOINTMENT |->
     <<"schedule", "book", "make an appointment", "set up", "arrange">>,
   CANCEL_APPOINTMENT |->
     <<"cancel", "delete", "remove", "cancel appointment">>,
   RESCHEDULE_APPOINTMENT |->
     <<"reschedule", "move", "change", "reschedule appointment">>,
   FIND_CLIENT |->
     <<"find", "look up", "search for", "find client", "look for">>,
   CHECK_APPOINTMENTS |->
     <<"check appointments", "show appointments", "list appointments",
       "what appointments", "appointments today", "schedule for">>,
   SEND_INTAKE_FORM |->
     <<"send form", "intake form", "send intake", "questionnaire">>,
   CHECK_INTAKE_STATUS |->
     <<"check intake", "intake status", "form status", "completed form">>,
   GET_CLIENT_INFO |->
     <<"client info", "client information", "tell me about", "client details">>,
   CHECK_AVAILABILITY |->
     <<"available", "availability", "free time", "open slots">>]

\* the keywords extractIntent passes to calculateConfidence for each category
Keywords ==
  [SCHEDULE_APPOINTMENT |-> <<"schedule", "appointment">>,
   CANCEL_APPOINTMENT |-> <<"cancel">>,
   RESCHEDULE_APPOINTMENT |-> <<"reschedule", "move">>,
   FIND_CLIENT |-> <<"find", "client">>,
   CHECK_APPOINTMENTS |-> <<"appointments", "schedule">>,
   SEND_INTAKE_FORM |-> <<"intake", "form">>,
   CHECK_INTAKE_STATUS |-> <<"intake", "status">>,
   GET_CLIENT_INFO |-> <<"client", "info">>,
   CHECK_AVAILABILITY |-> <<"available">>]

\* patterns.some(pattern => text.includes(pattern))
matchesPatterns(text, patterns) ==
  \E i \in 1..Len(patterns) : Includes(text, patterns[i])

\* a confidence is the quotient num/den of two naturals, den > 0
Quotient(n, d) == [num |-> n, den |-> d]

\* a confidence that looks at the first keyword only
calculateConfidenceFirstKeyword(text, keywords) ==
  Quotient(IF Includes(text, keywords[1]) THEN 1 ELSE 0, Len(keywords))

\* Math.min(matches / keywords.length, 1.0)
calculateConfidence(text, keywords) ==
  LET matches == Cardinality({ i \in 1..Len(keywords) : Includes(text, keywords[i]) })
  IN  IF matches > Len(keywords) THEN Quotient(1, 1)
      ELSE Quotient(matches, Len(keywords))

Intent(a, ps, c) == [action |-> a, params |-> ps, confidence |-> c]

\* a classifier that tries the cancel triggers before the schedule triggers
extractIntentCancelFirst(transcript) ==
  LET text == trim(toLowerCase(transcript))
  IN  IF matchesPatterns(text, Patterns.CANCEL_APPOINTMENT)
        THEN Intent("CANCEL_APPOINTMENT", extractCancelParams(text),
                    calculateConfidence(text, Keywords.CANCEL_APPOINTMENT))
      ELSE IF matchesPatterns(text, Patterns.SCHEDULE_APPOINTMENT)
        THEN Intent("SCHEDULE_APPOINTMENT", extractScheduleParams(text),
                    calculateConfidence(text, Keywords.SCHEDULE_APPOINTMENT))
      ELSE IF matchesPatterns(text, Patterns.RESCHEDULE_APPOINTMENT)
        THEN Intent("RESCHEDULE_APPOINTMENT", extractRescheduleParams(text),
                    calculateConfidence(text, Keywords.RESCHEDULE_APPOINTMENT))
      ELSE IF matchesPatterns(text, Patterns.FIND_CLIENT)
        THEN Intent("FIND_CLIENT", extractClientParams(text),
                    calculateConfidence(text, Keywords.FIND_CLIENT))
      ELSE IF matchesPatterns(text, Patterns.CHECK_APPOINTMENTS)
        THEN Intent("CHECK_APPOINTMENTS", extractDateParams(text),
                    calculateConfidence(text, Keywords.CHECK_APPOINTMENTS))
      ELSE IF matchesPatterns(text, Patterns.SEND_INTAKE_FORM)
        THEN Intent("SEND_INTAKE_FORM", extractIntakeParams(text),
                    calculateConfidence(text, Keywords.SEND_INTAKE_FORM))
      ELSE IF matchesPatterns(text, Patterns.CHECK_INTAKE_STATUS)
        THEN Intent("CHECK_INTAKE_STATUS", extractClientParams(text),
                    calculateConfidence(text, Keywords.CHECK_INTAKE_STATUS))
      ELSE IF matchesPatterns(text, Patterns.GET_CLIENT_INFO)
        THEN Intent("GET_CLIENT_INFO", extractClientParams(text),
                    calculateConfidence(text, Keywords.GET_CLIENT_INFO))
      ELSE IF matchesPatterns(text, Patterns.CHECK_AVAILABILITY)
        THEN Intent("CHECK_AVAILABILITY", extractAvailabilityParams(text),
                    calculateConfidence(text, Keywords.CHECK_AVAILABILITY))
      ELSE Intent("UNKNOWN", NoParams, Quotient(0, 1))

\* CommandProcessor.extractIntent: the categories in the order of the source
extractIntent(transcript) ==
  LET text == trim(toLowerCase(transcript))
  IN  IF matchesPatterns(text, Patterns.SCHEDULE_APPOINTMENT)
        THEN Intent("SCHEDULE_APPOINTMENT", extractScheduleParams(text),
                    calculateConfidence(text, Keywords.SCHEDULE_APPOINTMENT))
      ELSE IF matchesPatterns(text, Patterns.CANCEL_APPOINTMENT)
        THEN Intent("CANCEL_APPOINTMENT", extractCancelParams(text),
                    calculateConfidence(text, Keywords.CANCEL_APPOINTMENT))
      ELSE IF matchesPatterns(text, Patterns.RESCHEDULE_APPOINTMENT)
        THEN Intent("RESCHEDULE_APPOINTMENT", extractRescheduleParams(text),
                    calculateConfidence(text, Keywords.RESCHEDULE_APPOINTMENT))
      ELSE IF matchesPatterns(text, Patterns.FIND_CLIENT)
        THEN Intent("FIND_CLIENT", extractClientParams(text),
                    calculateConfidence(text, Keywords.FIND_CLIENT))
      ELSE IF matchesPatterns(text, Patterns.CHECK_APPOINTMENTS)
        THEN Intent("CHECK_APPOINTMENTS", extractDateParams(text),
                    calculateConfidence(text, Keywords.CHECK_APPOINTMENTS))
      ELSE IF matchesPatterns(text, Patterns.SEND_INTAKE_FORM)
        THEN Intent("SEND_INTAKE_FORM", extractIntakeParams(text),
                    calculateConfidence(text, Keywords.SEND_INTAKE_FORM))
      ELSE IF matchesPatterns(text, Patterns.CHECK_INTAKE_STATUS)
        THEN Intent("CHECK_INTAKE_STATUS", extractClientParams(text),
                    calculateConfidence(text, Keywords.CHECK_INTAKE_STATUS))
      ELSE IF matchesPatterns(text, Patterns.GET_CLIENT_INFO)
        THEN Intent("GET_CLIENT_INFO", extractClientParams(text),
                    calculateConfidence(text, Keywords.GET_CLIENT_INFO))
      ELSE IF matchesPatterns(text, Patterns.CHECK_AVAILABILITY)
        THEN Intent("CHECK_AVAILABILITY", extractAvailabilityParams(text),
                    calculateConfidence(text, Keywords.CHECK_AVAILABILITY))
      ELSE Intent("UNKNOWN", NoParams, Quotient(0, 1))

(***************************************************************************)
(* Configuration                                                           *)
(***************************************************************************)
BusinessHours(st, en, ds) == [start |-> st, end |-> en, days |-> ds]
AbsentBusinessHours == BusinessHours(Undefined, Undefined, {})
DefaultBusinessHours == BusinessHours("09:00", "17:00", {1, 2, 3, 4, 5})

\* VoiceAssistantApi.constructor: { businessHours: default, ...config }
VoiceAssistantApi(config) ==
  [config EXCEPT !.businessHours =
     IF @ = AbsentBusinessHours THEN DefaultBusinessHours ELSE @]

CustomStart == 510
CustomEnd == 1050
\* the Partial<VoiceConfig> values the server is constructed with
VoiceConfigs ==
  LET
    \* "HH:MM" of a minute of the day, as an operator writes it in the
    \* environment (BUSINESS_HOURS_START / BUSINESS_HOURS_END)
    HHMM(minuteOfDay) ==
      TwoDigits(minuteOfDay \div 60) \o ":" \o TwoDigits(minuteOfDay % 60)

    CustomDays == {1, 2, 3, 4, 5, 6}

    TransferNumber == "+15551234567"
  IN  { [businessHours |-> bh, defaultPractitionerEmail |-> d[1],
         defaultServiceId |-> d[2], defaultLocationId |-> d[3], transferNumber |-> t] :
          bh \in {AbsentBusinessHours,
                  BusinessHours(HHMM(CustomStart), HHMM(CustomEnd), CustomDays)},
          d \in {<<Undefined, Undefined, 0>>,
                 <<"dr2@clinic.com", "svc-2", 7>>,
                 <<"nobody@clinic.com", "svc-none", 0>>},
          t \in {Undefined, TransferNumber} }

(***************************************************************************)
(* The directory collaborator (IntakeQApi) and what its calls may return:  *)
(* a value, null, or an exception.                                         *)
(***************************************************************************)
MaxClients == 4
MaxPractitioners == 2
MaxServices == 2
MaxAppointments == 6

Client(i) ==
  [ClientId |-> i,
   Name |-> "John Smith (" \o ToString(i) \o ")",
   Email |-> "john" \o ToString(i) \o "@email.com",
   Phone |-> IF i % 2 = 1 THEN "555-123-456" \o ToString(i % 10) ELSE ""]
NullClient == [ClientId |-> 0, Name |-> Undefined, Email |-> Undefined, Phone |-> ""]

Practitioner(i) ==
  [Id |-> "prac-" \o ToString(i),
   Email |-> "dr" \o ToString(i) \o "@clinic.com",
   CompleteName |-> "Dr. Number " \o ToString(i)]
NullPractitioner == [Id |-> Undefined, Email |-> Undefined, CompleteName |-> Undefined]

NullService == [Id |-> Undefined, Name |-> Undefined]

\* appointment i: start times are not in the order of i, every third one is
\* not Confirmed, and the clients alternate
Appointment(i) ==
  [Id |-> "apt-" \o ToString(i),
   ClientId |-> 1 + (i % 2),
   ClientName |-> Client(1 + (i % 2)).Name,
   PractitionerName |-> Practitioner(1).CompleteName,
   Status |-> IF i % 3 = 0 THEN "Canceled" ELSE "Confirmed",
   StartDate |-> (9 * MinutesPerDay + 540 + ((i * 3) % 7) * 30) * 60,
   StartDateIso |-> DateOf(9, 540 + ((i * 3) % 7) * 30)]
NullAppointment ==
  [Id |-> Undefined, ClientId |-> 0, ClientName |-> Undefined,
   PractitionerName |-> Undefined, Status |-> Undefined, StartDate |-> 0,
   StartDateIso |-> InvalidDate]

Threw == [kind |-> "throw"]
Null == [kind |-> "null"]
Value(v) == [kind |-> "ok", val |-> v]

ListClientsResults ==
  {Threw, Null} \cup { Value([i \in 1..n |-> Client(i)]) : n \in 0..MaxClients }
GetClientResults == {Threw, Null, Value(Client(1))}
ListAppointmentsResults ==
  {Threw, Null} \cup { Value([i \in 1..n |-> Appointment(i)]) : n \in 0..MaxAppointments }
NullSettings == [none |-> TRUE]
MaxTemplates == 2
NullTemplate == [Id |-> Undefined, Name |-> Undefined]

\* the instants new Date() may return when a request is handled
Nows == { DateOf(7, 600), DateOf(12, 600) }

(***************************************************************************)
(* One invocation: the locals of the running async method, the calls it    *)
(* has issued to the directory and the promise it returned.                *)
(***************************************************************************)
NoData == [none |-> TRUE]
Response(m, ok, t, d) ==
  [message |-> m, success |-> ok, transferNumber |-> t, data |-> d]

Call(o, a) == [op |-> o, arg |-> a]
Idle(config) ==
  [pc |-> "idle", op |-> "", transcript |-> "",
   intent |-> Intent("UNKNOWN", NoParams, Quotient(0, 1)),
   api |-> config,
   clientName |-> Undefined, dateTimeStr |-> Undefined,
   serviceName |-> Undefined, practitionerEmail |-> Undefined,
   clientEmail |-> Undefined, appointmentId |-> Undefined, date |-> Undefined,
   clients |-> <<>>, client |-> NullClient, appointmentDate |-> NullDate,
   targetDate |-> NullDate,
   settings |-> NullSettings,
   practitioner |-> NullPractitioner, service |-> NullService,
   appointments |-> [kind |-> "none"],
   questionnaires |-> [kind |-> "none"], practitioners |-> [kind |-> "none"],
   appointment |-> NullAppointment, questionnaire |-> NullTemplate,
   responses |-> <<>>, settled |-> "pending", calls |-> <<>>, threw |-> <<>>,
   answers |-> <<>>]

\* `return response` of an async method: its promise resolves
Return(r, resp) ==
  [r EXCEPT !.pc = "done", !.settled = "resolved", !.responses = Append(@, resp)]

\* an exception leaves the method body: its promise rejects unless caught
Throw(r) == [r EXCEPT !.pc = "thrown", !.settled = "rejected"]

\* `await collaborator call`: the call is issued and the method suspends
Await(r, at, call) == [r EXCEPT !.pc = at, !.calls = Append(@, call)]

\* a catch block that lets the exception through
CatchRethrows(r, resp) == r

\* try { body } catch (error) { return resp }
Catch(r, resp) ==
  IF r.pc = "thrown"
  THEN [r EXCEPT !.pc = "done", !.settled = "resolved", !.responses = Append(@, resp)]
  ELSE r

\* the collaborator's answer reaches the awaiting method
Received(r, res) ==
  IF res.kind = "throw"
  THEN [r EXCEPT !.threw = Append(@, r.calls[Len(r.calls)].op),
                 !.answers = Append(@, res.kind)]
  ELSE [r EXCEPT !.answers = Append(@, res.kind)]

\* Array.prototype.find: first element satisfying Test, or the Absent value
\* found is the set of the indices whose element satisfies the test
Find(seq, found, Absent) == IF found = {} THEN Absent ELSE seq[Min(found)]

Names(seq) == [i \in 1..Len(seq) |-> seq[i].Name]

\* a sort that leaves the order as it is
SortByStartDateAsListed(seq) == seq

\* Array.prototype.sort((a, b) => a.StartDate - b.StartDate), stable
RECURSIVE SortByStartDate(_)
SortByStartDate(seq) ==
  IF Len(seq) <= 1 THEN seq
  ELSE LET m == Min({ seq[i].StartDate : i \in 1..Len(seq) })
           k == Min({ i \in 1..Len(seq) : seq[i].StartDate = m })
       IN  <<seq[k]>> \o SortByStartDate(SubSeq(seq, 1, k - 1) \o SubSeq(seq, k + 1, Len(seq)))

\* phone.replace(/\D/g, '')
RECURSIVE DigitsOnly(_)
DigitsOnly(str) ==
  IF str = "" THEN ""
  ELSE (IF Head(str) \in Digit THEN Head(str) ELSE "") \o DigitsOnly(Tail(str))

\* str.split('').join(' ')
RECURSIVE Spaced(_)
Spaced(str) ==
  IF Len(str) <= 1 THEN str ELSE Head(str) \o " " \o Spaced(Tail(str))

\* VoiceAssistantApi.formatPhoneForSpeech
formatPhoneForSpeech(phone) ==
  LET cleaned == DigitsOnly(phone)
  IN  IF Len(cleaned) = 10
      THEN Spaced(Sub(cleaned, 1, 4)) \o ", " \o Spaced(Sub(cleaned, 4, 7))
             \o ", " \o Spaced(Sub(cleaned, 7, 11))
      ELSE Spaced(phone)

(***************************************************************************)
(* VoiceAssistantApi.findClientByName / findClientByEmail                  *)
(***************************************************************************)
ListWindow(now) == [startDate |-> now.day, endDate |-> now.day + 30]

findClientByName(r, name) ==
  Await([r EXCEPT !.clientName = name], "findName_listClients", Call("listClients", name))

FindNameCatchResponse ==
  Response("I'm sorry, I encountered an error while searching for that client. Please try again.",
           FALSE, Undefined, NoData)

\* the first of the client's confirmed appointments in the order listed
getNextClientAppointmentUnsorted(clientId, res) ==
  IF res.kind # "ok" THEN NullAppointment
  ELSE Find(res.val, { i \in 1..Len(res.val) :
                         res.val[i].ClientId = clientId /\ res.val[i].Status = "Confirmed" },
            NullAppointment)

\* VoiceAssistantApi.getNextClientAppointment, after the listing answered
getNextClientAppointment(clientId, res) ==
  LET
    \* Array.prototype.filter
    \* kept is the set of the indices whose element satisfies the test
    Filter(seq, kept) ==
      LET Keep(ks) == [k \in 1..Len(ks) |-> seq[ks[k]]]
      IN  Keep(SortedSeq(kept))
  IN  IF res.kind # "ok" THEN NullAppointment
      ELSE LET Mine(apt) == apt.ClientId = clientId /\ apt.Status = "Confirmed"
               clientAppointments == SortByStartDate(Filter(res.val, { i \in 1..Len(res.val) : Mine(res.val[i]) }))
           IN  IF Len(clientAppointments) = 0 THEN NullAppointment
               ELSE clientAppointments[1]

NextAppointmentText(nextAppointment) ==
  IF nextAppointment # NullAppointment
  THEN ". Their next appointment is " \o formatDateForSpeech(nextAppointment.StartDateIso)
  ELSE ""

findClientByEmail(r, email) ==
  Await([r EXCEPT !.clientEmail = email], "findEmail_getClient",
        Call("getClientByEmail", email))

FindEmailNotFound(email) ==
  Response("I couldn't find a client with email " \o email
             \o ". Would you like me to create a new client record?",
           FALSE, Undefined, NoData)

(***************************************************************************)
(* VoiceAssistantApi.scheduleAppointment                                   *)
(***************************************************************************)
scheduleAppointment(r, clientName, dateTimeStr, serviceName, practitionerEmail) ==
  Await([r EXCEPT !.clientName = clientName, !.dateTimeStr = dateTimeStr,
                  !.serviceName = serviceName,
                  !.practitionerEmail = practitionerEmail],
        "schedule_listClients", Call("listClients", clientName))

ScheduleCatchResponse(config) ==
  Response("I'm sorry, I couldn't schedule that appointment. Let me transfer you to someone who can help.",
           FALSE, config.transferNumber, NoData)

\* lines 148-168: the one client found, the date parsed
ScheduleForClient(r1, client, appointmentDate) ==
  LET
    ScheduleUnparsedResponse ==
      Response("I couldn't understand that date and time. Could you please say it in a format like 'tomorrow at 3 PM' or 'December 15th at 10:30 AM'?",
               FALSE, Undefined, NoData)
  IN  IF appointmentDate = NullDate
      THEN Return([r1 EXCEPT !.client = client], ScheduleUnparsedResponse)
      ELSE IF ~isBusinessHours(appointmentDate, r1.api)
      THEN Return([r1 EXCEPT !.client = client, !.appointmentDate = appointmentDate],
             Response("That time is outside our business hours. We're open "
               \o getBusinessHoursText(r1.api) \o ". Please choose a different time.",
               FALSE, Undefined, NoData))
      ELSE Await([r1 EXCEPT !.client = client, !.appointmentDate = appointmentDate],
                 "schedule_getSettings", Call("getSettings", ""))

ScheduleNoClientResponse(clientName) ==
  Response("I couldn't find a client named " \o clientName
             \o ". Would you like me to create a new client record first?",
           FALSE, Undefined, NoData)

\* a lookup that takes the first of several matches
ScheduleWithDateFirstMatch(r1, clients, names, appointmentDate) ==
  IF Len(clients) = 0
  THEN Return(r1, ScheduleNoClientResponse(r1.clientName))
  ELSE ScheduleForClient(r1, clients[1], appointmentDate)

\* lines 133-168, once the listing has answered with the clients
ScheduleWithDate(r1, clients, names, appointmentDate) ==
  IF Len(clients) = 0
  THEN Return(r1, ScheduleNoClientResponse(r1.clientName))
  ELSE IF Len(clients) > 1
  THEN Return(r1, Response("I found multiple clients: " \o names
         \o ". Could you be more specific or provide their email?",
         FALSE, Undefined, NoData))
  ELSE ScheduleForClient(r1, clients[1], appointmentDate)

\* a resolution that skips the configured default
resolvePractitionerNoDefault(practitioners, practitionerEmail, config) ==
  LET IsNamed(p) == p.Email = practitionerEmail
  IN  IF Truthy(practitionerEmail)
        THEN Find(practitioners, { i \in 1..Len(practitioners) : IsNamed(practitioners[i]) }, NullPractitioner)
      ELSE IF Len(practitioners) > 0 THEN practitioners[1]
      ELSE NullPractitioner

\* lines 171-175: explicit e-mail, else configured default, else the first
resolvePractitioner(practitioners, practitionerEmail, config) ==
  LET IsNamed(p) == p.Email = practitionerEmail
      IsDefault(p) == p.Email = config.defaultPractitionerEmail
  IN  IF Truthy(practitionerEmail)
        THEN Find(practitioners, { i \in 1..Len(practitioners) : IsNamed(practitioners[i]) }, NullPractitioner)
      ELSE IF Truthy(config.defaultPractitionerEmail)
        THEN Find(practitioners, { i \in 1..Len(practitioners) : IsDefault(practitioners[i]) }, NullPractitioner)
      ELSE IF Len(practitioners) > 0 THEN practitioners[1]
      ELSE NullPractitioner

\* a resolution that compares the names as they are written
resolveServiceCaseSensitive(services, serviceName, config) ==
  LET IsNamed(sv) == Includes(sv.Name, serviceName)
      IsDefault(sv) == sv.Id = config.defaultServiceId
  IN  IF Truthy(serviceName)
        THEN Find(services, { i \in 1..Len(services) : IsNamed(services[i]) }, NullService)
      ELSE IF Truthy(config.defaultServiceId)
        THEN Find(services, { i \in 1..Len(services) : IsDefault(services[i]) }, NullService)
      ELSE IF Len(services) > 0 THEN services[1]
      ELSE NullService

\* lines 186-190: name contains serviceName, else default id, else the first
resolveService(services, serviceName, config) ==
  LET IsNamed(sv) == Includes(toLowerCase(sv.Name), toLowerCase(serviceName))
      IsDefault(sv) == sv.Id = config.defaultServiceId
  IN  IF Truthy(serviceName)
        THEN Find(services, { i \in 1..Len(services) : IsNamed(services[i]) }, NullService)
      ELSE IF Truthy(config.defaultServiceId)
        THEN Find(services, { i \in 1..Len(services) : IsDefault(services[i]) }, NullService)
      ELSE IF Len(services) > 0 THEN services[1]
      ELSE NullService

\* a request that leaves the client unnotified
appointmentRequestSilent(r, practitioner, service, locations) ==
  [ClientId |-> r.client.ClientId,
   PractitionerId |-> practitioner.Id,
   ServiceId |-> service.Id,
   LocationId |-> 1,
   UtcDateTime |-> UtcSeconds(r.appointmentDate),
   Status |-> "Confirmed",
   SendClientEmailNotification |-> FALSE,
   ReminderType |-> "Email"]

\* lines 201-210
appointmentRequest(r, practitioner, service, locations) ==
  LET
    \* this.config.defaultLocationId || settings.Locations[0]?.Id || 1
    resolveLocationId(config) ==
      IF config.defaultLocationId # 0 THEN config.defaultLocationId
      ELSE IF Len(locations) > 0 THEN locations[1].Id
      ELSE 1
  IN  [ClientId |-> r.client.ClientId,
       PractitionerId |-> practitioner.Id,
       ServiceId |-> service.Id,
       LocationId |-> resolveLocationId(r.api),
       UtcDateTime |-> UtcSeconds(r.appointmentDate),
       Status |-> "WaitingConfirmation",
       SendClientEmailNotification |-> TRUE,
       ReminderType |-> "Email"]

(***************************************************************************)
(* VoiceAssistantApi.getUpcomingAppointments                               *)
(***************************************************************************)
UpcomingCatchResponse ==
  Response("I'm sorry, I couldn't retrieve the appointment schedule right now. Please try again.",
           FALSE, Undefined, NoData)

\* a listing that takes the day after the current one when no date is given
getUpcomingAppointmentsNextDay(r, date, now, engine) ==
  LET Day(targetDate) ==
        IF targetDate = InvalidDate THEN Throw([r EXCEPT !.date = date])
        ELSE Await([r EXCEPT !.date = date, !.targetDate = DateOf(targetDate.day, 0)],
                   "upcoming_list",
                   Call("listAppointments",
                        [startDate |-> targetDate.day, endDate |-> targetDate.day,
                         status |-> "Confirmed"]))
  IN  Day(IF Truthy(date) THEN DateConstructor(date, engine) ELSE DateOf(now.day + 1, now.min))

\* targetDate.toISOString() throws a RangeError on an invalid Date
getUpcomingAppointments(r, date, now, engine) ==
  LET Day(targetDate) ==
        IF targetDate = InvalidDate THEN Throw([r EXCEPT !.date = date])
        ELSE Await([r EXCEPT !.date = date, !.targetDate = DateOf(targetDate.day, 0)],
                   "upcoming_list",
                   Call("listAppointments",
                        [startDate |-> targetDate.day, endDate |-> targetDate.day,
                         status |-> "Confirmed"]))
  IN  Day(IF Truthy(date) THEN DateConstructor(date, engine) ELSE now)

(***************************************************************************)
(* VoiceAssistantApi.cancelAppointment                                     *)
(***************************************************************************)
\* a cancellation that does not look the appointment up first
cancelAppointmentBlind(r, appointmentId) ==
  Await([r EXCEPT !.appointmentId = appointmentId], "cancel_cancel",
        Call("cancelAppointment", appointmentId))

cancelAppointment(r, appointmentId) ==
  Await([r EXCEPT !.appointmentId = appointmentId], "cancel_get",
        Call("getAppointment", appointmentId))

\* a catch block that reports the cancellation as done
CancelCatchResponseAsDone(config) ==
  Response("I'm sorry, I couldn't cancel that appointment. Please try again or contact our office directly.",
           TRUE, config.transferNumber, NoData)

CancelCatchResponse(config) ==
  Response("I'm sorry, I couldn't cancel that appointment. Please try again or contact our office directly.",
           FALSE, config.transferNumber, NoData)

(***************************************************************************)
(* VoiceAssistantApi.sendIntakeForm                                        *)
(***************************************************************************)
sendIntakeForm(r, clientEmail, questionnaireName) ==
  Await([r EXCEPT !.clientEmail = clientEmail, !.serviceName = questionnaireName],
        "intake_getClient", Call("getClientByEmail", clientEmail))

IntakeCatchResponse(config) ==
  Response("I'm sorry, I couldn't send the intake form. Please try again or contact our office.",
           FALSE, config.transferNumber, NoData)

resolveQuestionnaire(questionnaires, questionnaireName) ==
  LET IsNamed(q) == Includes(toLowerCase(q.Name), toLowerCase(questionnaireName))
  IN  IF Truthy(questionnaireName)
        THEN Find(questionnaires, { i \in 1..Len(questionnaires) : IsNamed(questionnaires[i]) }, NullTemplate)
      ELSE questionnaires[1]

\* a sender resolution that falls back to the first practitioner
resolveSenderOrFirst(practitioners, config) ==
  LET IsDefault(p) == p.Email = config.defaultPractitionerEmail
      Matching == { i \in 1..Len(practitioners) : IsDefault(practitioners[i]) }
  IN  IF Truthy(config.defaultPractitionerEmail) /\ Matching # {}
        THEN practitioners[Min(Matching)]
      ELSE IF Len(practitioners) > 0 THEN practitioners[1]
      ELSE NullPractitioner

resolveSender(practitioners, config) ==
  LET IsDefault(p) == p.Email = config.defaultPractitionerEmail
  IN  IF Truthy(config.defaultPractitionerEmail)
        THEN Find(practitioners, { i \in 1..Len(practitioners) : IsDefault(practitioners[i]) }, NullPractitioner)
      ELSE IF Len(practitioners) > 0 THEN practitioners[1]
      ELSE NullPractitioner

(***************************************************************************)
(* CommandProcessor: the handlers and processCommand                       *)
(***************************************************************************)
Say(r, message, ok) == Return(r, Response(message, ok, Undefined, NoData))

\* a handler that asks for the time before the name
handleScheduleAppointmentTimeFirst(r, intent) ==
  LET ps == intent.params
  IN  IF ~Truthy(ps.dateTime)
        THEN Say(r, "When would you like to schedule the appointment for "
                      \o ps.clientName \o "?", FALSE)
      ELSE IF ~Truthy(ps.clientName)
        THEN Say(r, "I'd be happy to schedule an appointment. What's the client's name?", FALSE)
      ELSE Catch(scheduleAppointment(r, ps.clientName, ps.dateTime, ps.serviceName,
                                     ps.practitionerName),
                 ScheduleCatchResponse(r.api))

handleScheduleAppointment(r, intent) ==
  LET ps == intent.params
  IN  IF ~Truthy(ps.clientName)
        THEN Say(r, "I'd be happy to schedule an appointment. What's the client's name?", FALSE)
      ELSE IF ~Truthy(ps.dateTime)
        THEN Say(r, "When would you like to schedule the appointment for "
                      \o ps.clientName \o "?", FALSE)
      ELSE Catch(scheduleAppointment(r, ps.clientName, ps.dateTime, ps.serviceName,
                                     ps.practitionerName),
                 ScheduleCatchResponse(r.api))

\* a handler that looks at the name and the date before the id
handleCancelAppointmentIdLast(r, intent) ==
  LET ps == intent.params
  IN  IF ~Truthy(ps.appointmentId) /\ ~Truthy(ps.clientName) /\ ~Truthy(ps.dateTime)
        THEN Say(r, "Which appointment would you like to cancel? Please provide the client name or appointment details.", FALSE)
      ELSE IF Truthy(ps.clientName) \/ Truthy(ps.dateTime)
        THEN Say(r, "I need more specific information to cancel that appointment. Could you provide the appointment ID or have someone transfer you to our scheduling team?", FALSE)
      ELSE Catch(cancelAppointment(r, ps.appointmentId), CancelCatchResponse(r.api))

handleCancelAppointment(r, intent) ==
  LET ps == intent.params
  IN  IF Truthy(ps.appointmentId)
        THEN Catch(cancelAppointment(r, ps.appointmentId), CancelCatchResponse(r.api))
      ELSE IF ~Truthy(ps.clientName) /\ ~Truthy(ps.dateTime)
        THEN Say(r, "Which appointment would you like to cancel? Please provide the client name or appointment details.", FALSE)
      ELSE Say(r, "I need more specific information to cancel that appointment. Could you provide the appointment ID or have someone transfer you to our scheduling team?", FALSE)

\* a handler that treats the command as a cancellation
handleRescheduleAppointmentAsCancel(r, intent) ==
  LET ps == intent.params
  IN  IF Truthy(ps.appointmentId)
        THEN Catch(cancelAppointment(r, ps.appointmentId), CancelCatchResponse(r.api))
      ELSE Say(r, "Which appointment would you like to cancel? Please provide the client name or appointment details.", FALSE)

handleRescheduleAppointment(r, intent) ==
  Say(r, "I can help you reschedule an appointment. Let me transfer you to our scheduling team who can find the best available time.", FALSE)

\* a handler that looks at the name before the e-mail
handleFindClientNameFirst(r, intent) ==
  LET ps == intent.params
  IN  IF Truthy(ps.clientName)
        THEN Catch(findClientByName(r, ps.clientName), FindNameCatchResponse)
      ELSE IF Truthy(ps.clientEmail)
        THEN Catch(findClientByEmail(r, ps.clientEmail), FindEmailNotFound(ps.clientEmail))
      ELSE Say(r, "I'd be happy to find a client for you. What's their name or email address?", FALSE)

handleFindClient(r, intent) ==
  LET ps == intent.params
  IN  IF Truthy(ps.clientEmail)
        THEN Catch(findClientByEmail(r, ps.clientEmail), FindEmailNotFound(ps.clientEmail))
      ELSE IF Truthy(ps.clientName)
        THEN Catch(findClientByName(r, ps.clientName), FindNameCatchResponse)
      ELSE Say(r, "I'd be happy to find a client for you. What's their name or email address?", FALSE)

handleCheckAppointments(r, intent, now, engine) ==
  Catch(getUpcomingAppointments(r, intent.params.date, now, engine), UpcomingCatchResponse)

handleSendIntakeForm(r, intent) ==
  LET ps == intent.params
  IN  IF ~Truthy(ps.clientEmail)
        THEN Say(r, "I'd be happy to send an intake form. What's the client's email address?", FALSE)
      ELSE Catch(sendIntakeForm(r, ps.clientEmail, ps.serviceName), IntakeCatchResponse(r.api))

handleCheckIntakeStatus(r, intent) ==
  Say(r, "I can help you check intake form status. Let me transfer you to someone who can look that up for you.", FALSE)

handleGetClientInfo(r, intent) ==
  LET ps == intent.params
  IN  IF Truthy(ps.clientEmail)
        THEN Catch(findClientByEmail(r, ps.clientEmail), FindEmailNotFound(ps.clientEmail))
      ELSE IF Truthy(ps.clientName)
        THEN Catch(findClientByName(r, ps.clientName), FindNameCatchResponse)
      ELSE Say(r, "Which client would you like information about? Please provide their name or email address.", FALSE)

handleCheckAvailability(r, intent) ==
  Say(r, "I can help you check availability. Let me transfer you to our scheduling team who can see all available time slots.", FALSE)

\* a handler that looks for a request for help before a greeting
handleUnknownCommandHelpFirst(r, transcript) ==
  IF matchesPatterns(toLowerCase(transcript), <<"help", "what can you do", "how do you work">>)
    THEN Say(r, "I can help you schedule appointments, find client information, check today's schedule, send intake forms, and cancel appointments. What would you like to do?", TRUE)
  ELSE IF matchesPatterns(toLowerCase(transcript),
                          <<"hello", "hi", "hey", "good morning", "good afternoon">>)
    THEN Say(r, "Hello! I'm here to help with scheduling appointments, finding client information, and sending intake forms. How can I assist you today?", TRUE)
  ELSE Say(r, "I'm not sure how to help with that. I can schedule appointments, find clients, check schedules, or send intake forms. What would you like me to do?", FALSE)

handleUnknownCommand(r, transcript) ==
  LET
    GreetingPatterns == <<"hello", "hi", "hey", "good morning", "good afternoon">>

    HelpPatterns == <<"help", "what can you do", "how do you work">>
  IN  IF matchesPatterns(toLowerCase(transcript), GreetingPatterns)
        THEN Say(r, "Hello! I'm here to help with scheduling appointments, finding client information, and sending intake forms. How can I assist you today?", TRUE)
      ELSE IF matchesPatterns(toLowerCase(transcript), HelpPatterns)
        THEN Say(r, "I can help you schedule appointments, find client information, check today's schedule, send intake forms, and cancel appointments. What would you like to do?", TRUE)
      ELSE Say(r, "I'm not sure how to help with that. I can schedule appointments, find clients, check schedules, or send intake forms. What would you like me to do?", FALSE)

\* processCommand up to its first suspension (or to its return), with the
\* intent that extractIntent gave for the transcript
processCommand(r0, transcript, intent, now, engine) ==
  LET
    \* the switch of processCommand
    Dispatch(r) ==
      CASE intent.action = "SCHEDULE_APPOINTMENT" -> handleScheduleAppointment(r, intent)
        [] intent.action = "CANCEL_APPOINTMENT" -> handleCancelAppointment(r, intent)
        [] intent.action = "RESCHEDULE_APPOINTMENT" -> handleRescheduleAppointment(r, intent)
        [] intent.action = "FIND_CLIENT" -> handleFindClient(r, intent)
        [] intent.action = "CHECK_APPOINTMENTS" -> handleCheckAppointments(r, intent, now, engine)
        [] intent.action = "SEND_INTAKE_FORM" -> handleSendIntakeForm(r, intent)
        [] intent.action = "CHECK_INTAKE_STATUS" -> handleCheckIntakeStatus(r, intent)
        [] intent.action = "GET_CLIENT_INFO" -> handleGetClientInfo(r, intent)
        [] intent.action = "CHECK_AVAILABILITY" -> handleCheckAvailability(r, intent)
        [] OTHER -> handleUnknownCommand(r, transcript)
  IN  Dispatch([r0 EXCEPT !.op = "processCommand", !.transcript = transcript,
                          !.intent = intent])

(***************************************************************************)
(* Inputs                                                                  *)
(***************************************************************************)
MaxWords == 2

RECURSIVE Sentences(_)
Sentences(n) ==
  LET
    Vocabulary ==
      {"schedule", "cancel", "find client", "john", "for", "today", "intake form"}
  IN  IF n <= 1 THEN Vocabulary
      ELSE Vocabulary \cup { st \o " " \o w : st \in Sentences(n - 1), w \in Vocabulary }

\* the commands of the README and variations of them
Examples ==
  {"schedule John Smith for tomorrow at 3 PM",
   "Schedule John Smith for tomorrow at 3 PM",
   "Book Mary for a consultation next Tuesday at 10 AM",
   "Make an appointment for jane.doe@email.com",
   "schedule John Smith on 12/15",
   "schedule John Smith for massage on 12/15",
   "book john smith at 3 pm",
   "schedule john smith december 15th",
   "Find client John Smith",
   "Look up jane.doe@email.com",
   "Search for Mary Johnson",
   "client info john smith",
   "tell me about john@email.com",
   "look up",
   "tell me about",
   "What appointments do we have today?",
   "Show me tomorrow's schedule",
   "Check appointments for Friday",
   "check appointments",
   "list appointments 12/15",
   "Send intake form to john@email.com",
   "Send new patient forms to Mary",
   "john@email.com send form",
   "john@email.com questionnaire consent",
   "Cancel appointment for John Smith",
   "Delete the 2 PM appointment",
   "cancel appointment id apt-1",
   "cancel appointment id apt-2",
   "cancel",
   "remove john smith",
   "reschedule appointment",
   "move john smith",
   "change appointment apt-1",
   "check intake status",
   "open slots",
   "hello there",
   "hello, I need help",
   "what can you do",
   "this is nothing",
   "thanks",
   "  Hello  ",
   ""}

Transcripts == Examples \cup Sentences(MaxWords)

ScheduleCalls ==
  LET
    \* direct calls of VoiceAssistantApi.scheduleAppointment
    ScheduleArgs(d, sv, pe) ==
      [clientName |-> "John Smith", dateTimeStr |-> d, serviceName |-> sv,
       practitionerEmail |-> pe]
  IN  { ScheduleArgs("tomorrow at 3 PM", sv, pe) :
          sv \in {Undefined, "consultation", "FOLLOW", "x-ray"},
          pe \in {Undefined, "dr2@clinic.com", "dr9@clinic.com"} }
      \cup
      { ScheduleArgs(d, Undefined, Undefined) :
          d \in {"tomorrow at 9 am", "tomorrow at 8:59 am", "tomorrow at 5 pm",
                 "today at 4:59 PM", "tomorrow at 8:30", "today at 17:30",
                 "tomorrow at 12 am", "tomorrow at 30", "December 15th at 10:30 AM",
                 "next week", "tomorrow"} }

(***************************************************************************)
(* State                                                                   *)
(***************************************************************************)
VARIABLES
  server,   \* BlandWebhookServer: config, and the config of its voiceApi
  inv       \* invocation id -> the invocation

vars == <<server, inv>>

Invocations == {1}

\* BlandWebhookServer.constructor
BlandWebhookServer(voiceConfig) ==
  LET config == [voiceConfig EXCEPT !.businessHours =
                   IF @ = AbsentBusinessHours THEN DefaultBusinessHours ELSE @]
  IN  [config |-> config, voiceApi |-> VoiceAssistantApi(config)]

Init ==
  /\ server \in { BlandWebhookServer(c) : c \in VoiceConfigs }
  /\ inv = [p \in Invocations |-> Idle(server.voiceApi)]

Step(p, r) == /\ inv' = [inv EXCEPT ![p] = r]
              /\ UNCHANGED server

\* POST /bland-webhook or /test-command: commandProcessor.processCommand,
\* for one of the transcripts
Command(p, transcripts) ==
  /\ inv[p].pc = "idle"
  /\ \E t \in transcripts :
       \E intent \in {extractIntent(t)}, now \in Nows, engine \in Engines :
         Step(p, processCommand(Idle(server.voiceApi), t, intent, now, engine))

ProcessCommand(p) == Command(p, Transcripts)

\* a caller of the library invokes voiceApi.scheduleAppointment itself
ScheduleAppointment(p) ==
  /\ inv[p].pc = "idle"
  /\ \E a \in ScheduleCalls :
       Step(p, Catch(scheduleAppointment([Idle(server.voiceApi) EXCEPT !.op = "scheduleAppointment"],
                                         a.clientName, a.dateTimeStr, a.serviceName,
                                         a.practitionerEmail),
                     ScheduleCatchResponse(server.voiceApi)))

FindNameClients(p) ==
  LET
    FindNameAfterClients(r, res, now) ==
      IF res.kind # "ok" THEN Throw(r)
      ELSE LET clients == res.val
               names == Join(Names(Slice(clients, 3)), ", ")
           IN  IF Len(clients) = 0
               THEN Return(r, Response("I couldn't find any clients named " \o r.clientName
                      \o ". Could you please spell the name or provide their email address?",
                      FALSE, Undefined, NoData))
               ELSE IF Len(clients) = 1
               THEN Await([r EXCEPT !.clients = clients, !.client = clients[1]],
                          "findName_next", Call("listAppointments", ListWindow(now)))
               ELSE Return([r EXCEPT !.clients = clients],
                      Response("I found " \o ToString(Len(clients))
                        \o " clients with that name: " \o names
                        \o ". Could you be more specific or provide their email address?",
                        FALSE, Undefined, [matches |-> clients]))
  IN  /\ inv[p].pc = "findName_listClients"
      /\ \E res \in ListClientsResults, now \in Nows :
           Step(p, Catch(FindNameAfterClients(Received(inv[p], res), res, now),
                         FindNameCatchResponse))

FindNameNext(p) ==
  LET
    FindNameAfterNext(r, res) ==
      LET nextAppointment == getNextClientAppointment(r.client.ClientId, res)
          message == "Found " \o r.client.Name \o ". Their email is " \o r.client.Email
            \o (IF Truthy(r.client.Phone)
                THEN " and phone number is " \o formatPhoneForSpeech(r.client.Phone)
                ELSE "")
            \o NextAppointmentText(nextAppointment)
      IN  Return([r EXCEPT !.appointment = nextAppointment],
                 Response(message, TRUE, Undefined,
                          [client |-> r.client, nextAppointment |-> nextAppointment]))
  IN  /\ inv[p].pc = "findName_next"
      /\ \E res \in ListAppointmentsResults :
           Step(p, Catch(FindNameAfterNext(Received([inv[p] EXCEPT !.appointments = res], res), res),
                         FindNameCatchResponse))

FindEmailClient(p) ==
  LET
    FindEmailAfterClient(r, res, now) ==
      IF res.kind = "throw" THEN Throw(r)
      ELSE IF res.kind = "null" THEN Return(r, FindEmailNotFound(r.clientEmail))
      ELSE Await([r EXCEPT !.client = res.val], "findEmail_next",
                 Call("listAppointments", ListWindow(now)))
  IN  /\ inv[p].pc = "findEmail_getClient"
      /\ \E res \in GetClientResults, now \in Nows :
           Step(p, Catch(FindEmailAfterClient(Received(inv[p], res), res, now),
                         FindEmailNotFound(inv[p].clientEmail)))

FindEmailNext(p) ==
  LET
    FindEmailAfterNext(r, res) ==
      LET nextAppointment == getNextClientAppointment(r.client.ClientId, res)
          message == "Found " \o r.client.Name \o " with email " \o r.clientEmail
            \o NextAppointmentText(nextAppointment)
      IN  Return([r EXCEPT !.appointment = nextAppointment],
                 Response(message, TRUE, Undefined,
                          [client |-> r.client, nextAppointment |-> nextAppointment]))
  IN  /\ inv[p].pc = "findEmail_next"
      /\ \E res \in ListAppointmentsResults :
           Step(p, Catch(FindEmailAfterNext(Received([inv[p] EXCEPT !.appointments = res], res), res),
                         FindEmailNotFound(inv[p].clientEmail)))

ScheduleClients(p) ==
  LET
    ScheduleAfterClients(r, res, now, engine) ==
      IF res.kind # "ok" THEN Throw(r)
      ELSE ScheduleWithDate([r EXCEPT !.clients = res.val], res.val,
                            Join(Names(Slice(res.val, 3)), ", "),
                            parseDateTime(r.dateTimeStr, now, engine))
  IN  /\ inv[p].pc = "schedule_listClients"
      /\ \E res \in ListClientsResults, now \in Nows, engine \in Engines :
           Step(p, Catch(ScheduleAfterClients(Received(inv[p], res), res, now, engine),
                         ScheduleCatchResponse(inv[p].api)))

ScheduleSettings(p) ==
  LET
    ServiceNames == <<"Initial Consultation", "Follow-up Consultation", "Massage">>

    Service(i) ==
      [Id |-> "svc-" \o ToString(i),
       Name |-> ServiceNames[((i - 1) % Len(ServiceNames)) + 1]]

    Location(i) == [Id |-> 10 + i]

    GetSettingsResults ==
      {Threw, Null} \cup
      { Value([Practitioners |-> [i \in 1..np |-> Practitioner(i)],
               Services |-> [i \in 1..ns |-> Service(i)],
               Locations |-> [i \in 1..nl |-> Location(i)]]) :
          np \in 0..MaxPractitioners, ns \in 0..MaxServices, nl \in 0..1 }

    \* lines 177-212, once the settings have answered
    ScheduleWithSettings(r, settings, practitioner, service) ==
      IF practitioner = NullPractitioner
      THEN Return(r, Response("I couldn't find an available practitioner. Please contact our office directly.",
             FALSE, r.api.transferNumber, NoData))
      ELSE IF service = NullService
      THEN Return([r EXCEPT !.practitioner = practitioner],
             Response("I couldn't find that service. Let me transfer you to someone who can help schedule that appointment.",
             FALSE, r.api.transferNumber, NoData))
      ELSE Await([r EXCEPT !.practitioner = practitioner, !.service = service],
                 "schedule_create",
                 Call("createAppointment",
                      appointmentRequest(r, practitioner, service, settings.Locations)))

    ScheduleAfterSettings(r, res) ==
      IF res.kind # "ok" THEN Throw(r)
      ELSE ScheduleWithSettings([r EXCEPT !.settings = res.val], res.val,
             resolvePractitioner(res.val.Practitioners, r.practitionerEmail, r.api),
             resolveService(res.val.Services, r.serviceName, r.api))
  IN  /\ inv[p].pc = "schedule_getSettings"
      /\ \E res \in GetSettingsResults :
           Step(p, Catch(ScheduleAfterSettings(Received(inv[p], res), res),
                         ScheduleCatchResponse(inv[p].api)))

ScheduleCreate(p) ==
  LET
    CreateResults == {Threw, Null, Value(Appointment(1))}

    ScheduleAfterCreate(r, res) ==
      IF res.kind # "ok" THEN Throw(r)
      ELSE LET appointment == res.val
           IN  Return([r EXCEPT !.appointment = appointment],
                 Response("Great! I've scheduled " \o r.client.Name \o " for " \o r.service.Name
                   \o " with " \o r.practitioner.CompleteName \o " on "
                   \o formatDateForSpeech(appointment.StartDateIso)
                   \o ". A confirmation email will be sent to " \o r.client.Email \o ".",
                   TRUE, Undefined,
                   [appointment |-> appointment, client |-> r.client,
                    practitioner |-> r.practitioner, service |-> r.service]))
  IN  /\ inv[p].pc = "schedule_create"
      /\ \E res \in CreateResults :
           Step(p, Catch(ScheduleAfterCreate(Received(inv[p], res), res),
                         ScheduleCatchResponse(inv[p].api)))

UpcomingList(p) ==
  LET
    AppointmentLine(apt) ==
      formatTimeForSpeech(apt.StartDateIso) \o " - " \o apt.ClientName
        \o " with " \o apt.PractitionerName

    UpcomingAfterList(r, res) ==
      IF res.kind # "ok" THEN Throw(r)
      ELSE LET appointments == res.val
               dayText == IF Truthy(r.date) THEN formatDateForSpeech(r.targetDate) ELSE "today"
               sorted == SortByStartDate(appointments)
               shown == Slice(sorted, 5)
               appointmentText == Join([i \in 1..Len(shown) |-> AppointmentLine(shown[i])], ", ")
           IN  IF Len(appointments) = 0
               THEN Return(r, Response("There are no confirmed appointments scheduled for "
                      \o dayText \o ".", TRUE, Undefined, [appointments |-> <<>>]))
               ELSE Return(r, Response("Here are the confirmed appointments for " \o dayText
                      \o ": " \o appointmentText, TRUE, Undefined,
                      [appointments |-> sorted]))
  IN  /\ inv[p].pc = "upcoming_list"
      /\ \E res \in ListAppointmentsResults :
           Step(p, Catch(UpcomingAfterList(Received([inv[p] EXCEPT !.appointments = res], res), res),
                         UpcomingCatchResponse))

CancelGet(p) ==
  LET
    GetAppointmentResults == {Threw, Null, Value(Appointment(1))}

    CancelAfterGet(r, res) ==
      IF res.kind = "throw" THEN Throw(r)
      ELSE IF res.kind = "null"
      THEN Return(r, Response("I couldn't find that appointment. Could you provide the appointment ID or client name?",
             FALSE, Undefined, NoData))
      ELSE Await([r EXCEPT !.appointment = res.val], "cancel_cancel",
                 Call("cancelAppointment", r.appointmentId))
  IN  /\ inv[p].pc = "cancel_get"
      /\ \E res \in GetAppointmentResults :
           Step(p, Catch(CancelAfterGet(Received(inv[p], res), res),
                         CancelCatchResponse(inv[p].api)))

CancelCancel(p) ==
  LET
    CancelResults == {Threw, Value(TRUE)}

    CancelAfterCancel(r, res) ==
      IF res.kind = "throw" THEN Throw(r)
      ELSE Return(r, Response("I've canceled the appointment for " \o r.appointment.ClientName
             \o " on " \o formatDateForSpeech(r.appointment.StartDateIso)
             \o ". The client will be notified.", TRUE, Undefined,
             [appointment |-> r.appointment]))
  IN  /\ inv[p].pc = "cancel_cancel"
      /\ \E res \in CancelResults :
           Step(p, Catch(CancelAfterCancel(Received(inv[p], res), res),
                         CancelCatchResponse(inv[p].api)))

IntakeClient(p) ==
  LET
    IntakeAfterClient(r, res) ==
      IF res.kind = "throw" THEN Throw(r)
      ELSE IF res.kind = "null"
      THEN Return(r, Response("I couldn't find a client with email " \o r.clientEmail
             \o ". Please check the email address.", FALSE, Undefined, NoData))
      ELSE Await([r EXCEPT !.client = res.val], "intake_templates",
                 Call("listQuestionnaireTemplates", ""))
  IN  /\ inv[p].pc = "intake_getClient"
      /\ \E res \in GetClientResults :
           Step(p, Catch(IntakeAfterClient(Received(inv[p], res), res),
                         IntakeCatchResponse(inv[p].api)))

IntakeTemplates(p) ==
  LET
    TemplateNames == <<"New Patient Intake", "Consent Form", "Health History">>

    Template(i) ==
      [Id |-> "tpl-" \o ToString(i),
       Name |-> TemplateNames[((i - 1) % Len(TemplateNames)) + 1]]

    ListTemplatesResults ==
      {Threw, Null} \cup { Value([i \in 1..n |-> Template(i)]) : n \in 0..MaxTemplates }

    IntakeAfterTemplates(r, res) ==
      IF res.kind # "ok" THEN Throw(r)
      ELSE LET questionnaires == res.val
               questionnaire == resolveQuestionnaire(questionnaires, r.serviceName)
               availableNames == Join(Names(Slice(questionnaires, 3)), ", ")
           IN  IF Len(questionnaires) = 0
               THEN Return(r, Response("There are no intake forms available to send. Please contact our office.",
                      FALSE, r.api.transferNumber, NoData))
               ELSE IF questionnaire = NullTemplate
               THEN Return(r, Response("I couldn't find that intake form. Available forms include: "
                      \o availableNames, FALSE, Undefined, NoData))
               ELSE Await([r EXCEPT !.questionnaire = questionnaire], "intake_practitioners",
                          Call("listPractitioners", ""))
  IN  /\ inv[p].pc = "intake_templates"
      /\ \E res \in ListTemplatesResults :
           Step(p, Catch(IntakeAfterTemplates(Received([inv[p] EXCEPT !.questionnaires = res], res), res),
                         IntakeCatchResponse(inv[p].api)))

IntakePractitioners(p) ==
  LET
    ListPractitionersResults ==
      {Threw, Null} \cup { Value([i \in 1..n |-> Practitioner(i)]) : n \in 0..MaxPractitioners }

    IntakeAfterPractitioners(r, res) ==
      IF res.kind # "ok" THEN Throw(r)
      ELSE LET practitioner == resolveSender(res.val, r.api)
           IN  IF practitioner = NullPractitioner
               THEN Return(r, Response("I couldn't find an available practitioner. Please contact our office.",
                      FALSE, r.api.transferNumber, NoData))
               ELSE Await([r EXCEPT !.practitioner = practitioner], "intake_send",
                          Call("sendQuestionnaire",
                               [ClientId |-> r.client.ClientId,
                                QuestionnaireId |-> r.questionnaire.Id,
                                PractitionerId |-> practitioner.Id]))
  IN  /\ inv[p].pc = "intake_practitioners"
      /\ \E res \in ListPractitionersResults :
           Step(p, Catch(IntakeAfterPractitioners(Received([inv[p] EXCEPT !.practitioners = res], res), res),
                         IntakeCatchResponse(inv[p].api)))

IntakeSend(p) ==
  LET
    SendQuestionnaireResults == {Threw, Value(TRUE)}

    IntakeAfterSend(r, res) ==
      IF res.kind = "throw" THEN Throw(r)
      ELSE Return(r, Response("I've sent the " \o r.questionnaire.Name \o " intake form to "
             \o r.client.Name \o " at " \o r.clientEmail
             \o ". They'll receive an email with instructions to complete it.",
             TRUE, Undefined,
             [intake |-> res.val, client |-> r.client, questionnaire |-> r.questionnaire]))
  IN  /\ inv[p].pc = "intake_send"
      /\ \E res \in SendQuestionnaireResults :
           Step(p, Catch(IntakeAfterSend(Received(inv[p], res), res),
                         IntakeCatchResponse(inv[p].api)))

Next ==
  \E p \in Invocations :
    \/ ProcessCommand(p)
    \/ ScheduleAppointment(p)
    \/ FindNameClients(p)
    \/ FindNameNext(p)
    \/ FindEmailClient(p)
    \/ FindEmailNext(p)
    \/ ScheduleClients(p)
    \/ ScheduleSettings(p)
    \/ ScheduleCreate(p)
    \/ UpcomingList(p)
    \/ CancelGet(p)
    \/ CancelCancel(p)
    \/ IntakeClient(p)
    \/ IntakeTemplates(p)
    \/ IntakePractitioners(p)
    \/ IntakeSend(p)

Spec == Init /\ [][Next]_vars

(***************************************************************************)
(* Two requests in flight while the configuration is updated               *)
(***************************************************************************)
\* the Partial<VoiceConfig> values updateConfig is called with
NewConfigs ==
  { [businessHours |-> BusinessHours("10:00", "12:00", {6}),
     defaultPractitionerEmail |-> "dr2@clinic.com",
     transferNumber |-> "+15559990000"] }

\* BlandWebhookServer.updateConfig: { ...this.config, ...newConfig }, and a
\* new VoiceAssistantApi (with it a new CommandProcessor) built from it
updateConfig(srv, newConfig) ==
  LET config == [k \in DOMAIN srv.config |->
                   IF k \in DOMAIN newConfig THEN newConfig[k] ELSE srv.config[k]]
  IN  [config |-> config, voiceApi |-> VoiceAssistantApi(config)]

\* an update that writes the new configuration into the instance in use
ThisConfigOverwritten(api, newApi) == newApi

\* this.config of the VoiceAssistantApi a method is running on, after
\* updateConfig has built newApi: the instance is not written to
ThisConfig(api, newApi) == api

UpdateConfig ==
  \E newConfig \in NewConfigs :
    /\ server' = updateConfig(server, newConfig)
    /\ inv' = [p \in DOMAIN inv |->
                 [inv[p] EXCEPT !.api = ThisConfig(@, updateConfig(server, newConfig).voiceApi)]]

ConcurrentInvocations == {1, 2}

\* what the callers send while two requests are in flight
ConcurrentTranscripts ==
  {"Find client John Smith", "Look up jane.doe@email.com", "check appointments",
   "cancel appointment id apt-1", "john@email.com send form"}

InitConcurrent ==
  /\ server \in { BlandWebhookServer(c) :
                    c \in { v \in VoiceConfigs :
                              /\ v.businessHours = AbsentBusinessHours
                              /\ v.defaultPractitionerEmail = Undefined
                              /\ v.transferNumber # Undefined } }
  /\ inv = [p \in ConcurrentInvocations |-> Idle(server.voiceApi)]

\* what the second caller sends meanwhile
MeanwhileTranscripts ==
  {"cancel appointment id apt-2", "tell me about john@email.com"}

\* the first request runs any of the flows; the second one, in flight at the
\* same time, a cancellation or a lookup by e-mail
NextConcurrent ==
  \/ UpdateConfig
  \/ \E p \in {2} :
       \/ Command(p, MeanwhileTranscripts)
       \/ FindEmailClient(p)
       \/ FindEmailNext(p)
       \/ CancelGet(p)
       \/ CancelCancel(p)
  \/ \E p \in {1} :
       \/ Command(p, ConcurrentTranscripts)
       \/ ScheduleAppointment(p) /\ inv'[p].dateTimeStr = "tomorrow at 3 PM"
                                 /\ inv'[p].serviceName = Undefined
                                 /\ inv'[p].practitionerEmail = Undefined
       \/ FindNameClients(p)
       \/ FindNameNext(p)
       \/ FindEmailClient(p)
       \/ FindEmailNext(p)
       \/ ScheduleClients(p)
       \/ ScheduleSettings(p)
       \/ ScheduleCreate(p)
       \/ UpcomingList(p)
       \/ CancelGet(p)
       \/ CancelCancel(p)
       \/ IntakeClient(p)
       \/ IntakeTemplates(p)
       \/ IntakePractitioners(p)
       \/ IntakeSend(p)

SpecConcurrent == InitConcurrent /\ [][NextConcurrent]_vars

(***************************************************************************)
(* Properties                                                              *)
(***************************************************************************)
\* the response the invocation returned
Returned(r) == r.responses[Len(r.responses)]

StartsWith(s, pat) == At(s, 1, pat)

\* the positions of the mutating calls the invocation has issued
Mutations(r) ==
  LET
    MutatingOps == {"createAppointment", "cancelAppointment", "sendQuestionnaire"}
  IN  { k \in 1..Len(r.calls) : r.calls[k].op \in MutatingOps }

OpsCalled(r) == [k \in 1..Len(r.calls) |-> r.calls[k].op]

\* the invocation runs scheduleAppointment
InScheduleFlow(r) ==
  /\ r.calls # <<>>
  /\ \/ r.op = "scheduleAppointment"
     \/ r.op = "processCommand" /\ r.intent.action = "SCHEDULE_APPOINTMENT"

\* the invocation runs findClientByName
InFindNameFlow(r) ==
  /\ r.op = "processCommand"
  /\ r.intent.action \in {"FIND_CLIENT", "GET_CLIENT_INFO"}
  /\ r.calls # <<>>
  /\ r.calls[1].op = "listClients"

\* opening and closing minute of the day of the configurations in use
OpeningMinutes(config) ==
  IF config.businessHours = DefaultBusinessHours
  THEN <<9 * 60, 17 * 60>>
  ELSE <<CustomStart, CustomEnd>>

\* the weekday of the date is an open day and its minute of the day lies in
\* [opening, closing)
Open(date, config) ==
  /\ (date.day % 7) \in config.businessHours.days
  /\ OpeningMinutes(config)[1] <= date.min
  /\ date.min < OpeningMinutes(config)[2]

HasDigit(str) == \E i \in 1..Len(str) : Ch(str, i) \in Digit

(* C1: processCommand never rejects: while it waits for the directory its   *)
(* promise is pending, no response exists yet and the directory's answer    *)
(* can be delivered; once it is over, the promise is resolved with exactly  *)
(* one response, whose message is not empty, whatever the directory did.    *)
ProcessCommandAlwaysResolves ==
  \A p \in Invocations :
    inv[p].op = "processCommand" =>
      /\ inv[p].settled # "rejected"
      /\ inv[p].pc = "done" =>
           /\ inv[p].settled = "resolved"
           /\ Len(inv[p].responses) = 1
           /\ Len(inv[p].responses[1].message) > 0
      /\ inv[p].pc # "done" =>
           /\ inv[p].settled = "pending"
           /\ inv[p].responses = <<>>
           /\ ENABLED Next

\* a command is over although a call to the directory threw
ResolvedAfterDirectoryThrew ==
  \E p \in Invocations :
    /\ inv[p].op = "processCommand"
    /\ inv[p].pc = "done"
    /\ inv[p].threw # <<>>
    /\ inv[p].settled = "resolved"

(* C2: whenever a call to the directory has thrown, the response says       *)
(* success=false, its message apologises, and it carries the configured     *)
(* transfer number if one is configured.                                    *)
DirectoryFailureApologisesAndTransfers ==
  \A p \in Invocations :
    (inv[p].pc = "done" /\ inv[p].threw # <<>>) =>
      /\ Returned(inv[p]).success = FALSE
      /\ StartsWith(Returned(inv[p]).message, "I'm sorry")
      /\ Truthy(inv[p].api.transferNumber) =>
           Returned(inv[p]).transferNumber = inv[p].api.transferNumber

(* C3: in the Schedule flow the only mutating call is createAppointment,    *)
(* it is issued at most once, after the name lookup and the settings both   *)
(* answered with data, and only if the lookup returned exactly one client,  *)
(* the phrase resolved to an instant inside the business hours and a        *)
(* practitioner and a service were resolved; the request carries these.     *)
CreateOnlyForUnambiguousTarget ==
  \A p \in Invocations :
    InScheduleFlow(inv[p]) =>
      \A k \in Mutations(inv[p]) :
        /\ inv[p].calls[k].op = "createAppointment"
        /\ OpsCalled(inv[p]) = <<"listClients", "getSettings", "createAppointment">>
        /\ inv[p].threw \in {<<>>, <<"createAppointment">>}
        /\ Len(inv[p].clients) = 1
        /\ inv[p].calls[k].arg.ClientId = inv[p].clients[1].ClientId
        /\ inv[p].appointmentDate \notin {NullDate, InvalidDate}
        /\ Open(inv[p].appointmentDate, inv[p].api)
        /\ inv[p].calls[k].arg.UtcDateTime = UtcSeconds(inv[p].appointmentDate)
        /\ inv[p].practitioner # NullPractitioner
        /\ inv[p].calls[k].arg.PractitionerId = inv[p].practitioner.Id
        /\ inv[p].service # NullService
        /\ inv[p].calls[k].arg.ServiceId = inv[p].service.Id

\* the Schedule flow has issued createAppointment
CreateIssued ==
  \E p \in Invocations :
    /\ InScheduleFlow(inv[p])
    /\ Mutations(inv[p]) # {}

\* the categories in the declared order, with their trigger phrases
CategoryOrder ==
  << <<"SCHEDULE_APPOINTMENT", Patterns.SCHEDULE_APPOINTMENT>>,
     <<"CANCEL_APPOINTMENT", Patterns.CANCEL_APPOINTMENT>>,
     <<"RESCHEDULE_APPOINTMENT", Patterns.RESCHEDULE_APPOINTMENT>>,
     <<"FIND_CLIENT", Patterns.FIND_CLIENT>>,
     <<"CHECK_APPOINTMENTS", Patterns.CHECK_APPOINTMENTS>>,
     <<"SEND_INTAKE_FORM", Patterns.SEND_INTAKE_FORM>>,
     <<"CHECK_INTAKE_STATUS", Patterns.CHECK_INTAKE_STATUS>>,
     <<"GET_CLIENT_INFO", Patterns.GET_CLIENT_INFO>>,
     <<"CHECK_AVAILABILITY", Patterns.CHECK_AVAILABILITY>> >>

\* the positions in CategoryOrder of the categories a text triggers
Triggered(text) ==
  { c \in 1..Len(CategoryOrder) :
      \E k \in 1..Len(CategoryOrder[c][2]) : Includes(text, CategoryOrder[c][2][k]) }

(* C4: the action of the intent is the first category, in the declared      *)
(* order, one of whose trigger phrases is a substring of the lower-cased,   *)
(* trimmed transcript, and UNKNOWN when no category has one.                *)
FirstTriggeredCategoryWins ==
  \A p \in Invocations :
    inv[p].op = "processCommand" =>
      \A T \in {Triggered(trim(toLowerCase(inv[p].transcript)))} :
        inv[p].intent.action =
          IF T = {} THEN "UNKNOWN" ELSE CategoryOrder[Min(T)][1]

\* a transcript that triggers several categories was classified
SeveralCategoriesTriggered ==
  \E p \in Invocations :
    /\ inv[p].op = "processCommand"
    /\ Cardinality(Triggered(trim(toLowerCase(inv[p].transcript)))) > 1
    /\ inv[p].intent.action # "UNKNOWN"

\* the confidence keywords of each action
ConfidenceKeywords(action) ==
  CASE action = "SCHEDULE_APPOINTMENT" -> Keywords.SCHEDULE_APPOINTMENT
    [] action = "CANCEL_APPOINTMENT" -> Keywords.CANCEL_APPOINTMENT
    [] action = "RESCHEDULE_APPOINTMENT" -> Keywords.RESCHEDULE_APPOINTMENT
    [] action = "FIND_CLIENT" -> Keywords.FIND_CLIENT
    [] action = "CHECK_APPOINTMENTS" -> Keywords.CHECK_APPOINTMENTS
    [] action = "SEND_INTAKE_FORM" -> Keywords.SEND_INTAKE_FORM
    [] action = "CHECK_INTAKE_STATUS" -> Keywords.CHECK_INTAKE_STATUS
    [] action = "GET_CLIENT_INFO" -> Keywords.GET_CLIENT_INFO
    [] action = "CHECK_AVAILABILITY" -> Keywords.CHECK_AVAILABILITY
    [] OTHER -> <<>>

\* how many of the keywords occur in the text
Present(text, keywords) ==
  Cardinality({ k \in 1..Len(keywords) : Includes(text, keywords[k]) })

(* C5: the confidence of the intent is the number of the category's         *)
(* confidence keywords that occur in the text divided by the number of      *)
(* those keywords, lies between 0 and 1, and is 0 for UNKNOWN.              *)
ConfidenceIsShareOfKeywords ==
  \A p \in Invocations :
    inv[p].op = "processCommand" =>
      /\ inv[p].intent.confidence.den > 0
      /\ inv[p].intent.confidence.num >= 0
      /\ inv[p].intent.confidence.num <= inv[p].intent.confidence.den
      /\ IF inv[p].intent.action = "UNKNOWN"
         THEN inv[p].intent.confidence.num = 0
         ELSE inv[p].intent.confidence.num * Len(ConfidenceKeywords(inv[p].intent.action))
                = Present(trim(toLowerCase(inv[p].transcript)),
                          ConfidenceKeywords(inv[p].intent.action))
                    * inv[p].intent.confidence.den

\* an intent whose confidence is strictly between 0 and 1
PartialConfidence ==
  \E p \in Invocations :
    /\ inv[p].op = "processCommand"
    /\ inv[p].intent.action # "UNKNOWN"
    /\ inv[p].intent.confidence.num > 0
    /\ inv[p].intent.confidence.num < inv[p].intent.confidence.den

(* C6: "schedule John Smith for tomorrow at 3 PM" is classified             *)
(* SCHEDULE_APPOINTMENT with clientName "John Smith", and the date/time     *)
(* phrase extracted from it resolves to tomorrow at 15:00.                  *)
ReadmeScheduleCommandUnderstood ==
  \A p \in Invocations :
    (inv[p].op = "processCommand"
       /\ inv[p].transcript = "schedule John Smith for tomorrow at 3 PM") =>
      /\ inv[p].intent.action = "SCHEDULE_APPOINTMENT"
      /\ inv[p].intent.params.clientName = "John Smith"
      /\ \A now \in Nows, engine \in Engines :
           parseDateTime(inv[p].intent.params.dateTime, now, engine)
             = DateOf(now.day + 1, 15 * 60)

\* the lookup by name answered with several clients and the flow is over
SeveralClients(r) ==
  /\ InScheduleFlow(r) \/ InFindNameFlow(r)
  /\ r.pc = "done"
  /\ Len(r.clients) > 1

\* the message names exactly the first three (or fewer) of the clients
NamesFirstThree(message, clients) ==
  \A i \in 1..Len(clients) : Includes(message, clients[i].Name) <=> i <= 3

(* C7 as claimed: after a lookup by name that returned n > 1 clients the    *)
(* response says success=false, names the first min(n,3) of them, carries   *)
(* the n matches as data, and no mutating call was issued, in the Schedule  *)
(* flow as in the Find client / Get client info flow.                       *)
AmbiguousLookupCarriesMatches ==
  \A p \in Invocations :
    SeveralClients(inv[p]) =>
      /\ Returned(inv[p]).success = FALSE
      /\ NamesFirstThree(Returned(inv[p]).message, inv[p].clients)
      /\ Returned(inv[p]).data = [matches |-> inv[p].clients]
      /\ Mutations(inv[p]) = {}

(* C7 amended: after a lookup by name that returned n > 1 clients the       *)
(* response says success=false and names the first min(n,3) of them, no     *)
(* mutating call was issued (the lookup is the only call), and the          *)
(* response carries the n matches as data in the Find client / Get client   *)
(* info flow, and no data in the Schedule flow.                             *)
AmbiguousLookupAsksToDisambiguate ==
  \A p \in Invocations :
    SeveralClients(inv[p]) =>
      /\ Returned(inv[p]).success = FALSE
      /\ NamesFirstThree(Returned(inv[p]).message, inv[p].clients)
      /\ Returned(inv[p]).data =
           IF InFindNameFlow(inv[p]) THEN [matches |-> inv[p].clients] ELSE NoData
      /\ OpsCalled(inv[p]) = <<"listClients">>

\* a lookup by name in the Find client flow answered with more than three
FourClientsFound ==
  \E p \in Invocations :
    /\ SeveralClients(inv[p])
    /\ InFindNameFlow(inv[p])
    /\ Len(inv[p].clients) > 3

\* the text of lines 154-155
ClarifyingMessage ==
  "I couldn't understand that date and time. Could you please say it in a format like 'tomorrow at 3 PM' or 'December 15th at 10:30 AM'?"

\* scheduleAppointment is over and its phrase could not be resolved: the
\* phrase holds no digit (no time of day is read from it and no engine builds
\* a date from it), or the resolver answered null
UnresolvedPhrase(r) ==
  /\ InScheduleFlow(r)
  /\ r.pc = "done"
  /\ \/ ~HasDigit(r.dateTimeStr)
     \/ Len(r.clients) = 1 /\ r.appointmentDate = NullDate

(* C8 as claimed: scheduleAppointment with a phrase that cannot be resolved *)
(* answers success=false with the message that asks for a valid format and  *)
(* issues no mutating call.                                                 *)
UnresolvedPhraseAlwaysClarified ==
  \A p \in Invocations :
    UnresolvedPhrase(inv[p]) =>
      /\ Returned(inv[p]).success = FALSE
      /\ Returned(inv[p]).message = ClarifyingMessage
      /\ Mutations(inv[p]) = {}

(* C8 amended: scheduleAppointment with a phrase that cannot be resolved    *)
(* answers success=false and issues no mutating call; when the name lookup  *)
(* returned exactly one client, the message is the one that asks for a      *)
(* valid format, the lookup is the only call and no date was substituted.   *)
UnresolvedPhraseClarifiedForOneClient ==
  \A p \in Invocations :
    UnresolvedPhrase(inv[p]) =>
      /\ Returned(inv[p]).success = FALSE
      /\ Mutations(inv[p]) = {}
      /\ Len(inv[p].clients) = 1 =>
           /\ Returned(inv[p]).message = ClarifyingMessage
           /\ OpsCalled(inv[p]) = <<"listClients">>
           /\ inv[p].appointmentDate = NullDate

\* one client was found and the phrase, which holds no digit, was refused
PhraseRefusedForOneClient ==
  \E p \in Invocations :
    /\ UnresolvedPhrase(inv[p])
    /\ ~HasDigit(inv[p].dateTimeStr)
    /\ Len(inv[p].clients) = 1
    /\ Returned(inv[p]).message = ClarifyingMessage

\* minutes of the day around the opening and the closing minute, and every
\* quarter of an hour
ProbedMinutes(config) ==
  { m \in 0..(MinutesPerDay - 1) :
      \/ m % 15 = 0
      \/ \E k \in 1..2 : m - OpeningMinutes(config)[k] \in {-1, 0, 1} }

\* the Schedule flow has resolved the phrase to a date
DateResolved(r) ==
  /\ InScheduleFlow(r)
  /\ r.appointmentDate \notin {NullDate, InvalidDate}

(* C9: isBusinessHours is true exactly when the weekday of the instant is   *)
(* a configured day and start <= hours*60+minutes < end, so it is true at   *)
(* the opening minute and false at the closing minute; the Schedule flow    *)
(* goes on to the settings exactly for the instants inside.                 *)
BusinessHoursHalfOpen ==
  /\ \A p \in Invocations :
       inv[p].pc = "idle" =>
         \A d \in 0..6, m \in ProbedMinutes(server.voiceApi) :
           isBusinessHours(DateOf(d, m), server.voiceApi)
             <=> Open(DateOf(d, m), server.voiceApi)
  /\ \A p \in Invocations :
       DateResolved(inv[p]) =>
         /\ isBusinessHours(inv[p].appointmentDate, inv[p].api)
              <=> Open(inv[p].appointmentDate, inv[p].api)
         /\ Open(inv[p].appointmentDate, inv[p].api)
              <=> (Len(inv[p].calls) >= 2 /\ inv[p].calls[2].op = "getSettings")

\* an appointment asked for the closing minute of an open day was refused
RefusedAtClosingMinute ==
  \E p \in Invocations :
    /\ DateResolved(inv[p])
    /\ (inv[p].appointmentDate.day % 7) \in inv[p].api.businessHours.days
    /\ inv[p].appointmentDate.min = OpeningMinutes(inv[p].api)[2]
    /\ inv[p].pc = "done"
    /\ OpsCalled(inv[p]) = <<"listClients">>

\* the settings have answered in the Schedule flow
SettingsAnswered(r) ==
  /\ InScheduleFlow(r)
  /\ r.settings # NullSettings

\* the e-mail the practitioner is looked up by, or Undefined
WantedEmail(r) ==
  IF Truthy(r.practitionerEmail) THEN r.practitionerEmail
  ELSE IF Truthy(r.api.defaultPractitionerEmail) THEN r.api.defaultPractitionerEmail
  ELSE Undefined

\* the positions of the practitioners the rule in force selects among
Eligible(r) ==
  { i \in 1..Len(r.settings.Practitioners) :
      WantedEmail(r) = Undefined \/ r.settings.Practitioners[i].Email = WantedEmail(r) }

\* the answer of lines 177-183
NoPractitionerAnswer(r) ==
  /\ r.pc = "done"
  /\ Returned(r).success = FALSE
  /\ Returned(r).message = "I couldn't find an available practitioner. Please contact our office directly."
  /\ Returned(r).transferNumber = r.api.transferNumber
  /\ Mutations(r) = {}

(* C10 as claimed: the practitioner is the named one if one is named, else  *)
(* the one with the configured default e-mail, else the first; the flow     *)
(* fails for want of a practitioner only when the directory has none.       *)
FailsOnlyWithoutPractitioners ==
  \A p \in Invocations :
    SettingsAnswered(inv[p]) =>
      IF Len(inv[p].settings.Practitioners) = 0
      THEN inv[p].practitioner = NullPractitioner /\ NoPractitionerAnswer(inv[p])
      ELSE /\ inv[p].practitioner # NullPractitioner
           /\ Eligible(inv[p]) # {} =>
                inv[p].practitioner = inv[p].settings.Practitioners[Min(Eligible(inv[p]))]

(* C10 amended: the practitioner is the first whose e-mail equals the       *)
(* practitioner argument if one is given, else the first whose e-mail       *)
(* equals the configured default if one is configured, else the first of    *)
(* the directory; the flow fails for want of a practitioner exactly when    *)
(* the rule in force selects none, with success=false, the configured       *)
(* transfer number and no mutating call.                                    *)
PractitionerByPriority ==
  \A p \in Invocations :
    SettingsAnswered(inv[p]) =>
      IF Eligible(inv[p]) = {}
      THEN inv[p].practitioner = NullPractitioner /\ NoPractitionerAnswer(inv[p])
      ELSE /\ inv[p].practitioner = inv[p].settings.Practitioners[Min(Eligible(inv[p]))]
           /\ \A k \in Mutations(inv[p]) :
                inv[p].calls[k].arg.PractitionerId = inv[p].practitioner.Id

\* the configured default selected a practitioner that is not the first
DefaultPractitionerChosen ==
  \E p \in Invocations :
    /\ SettingsAnswered(inv[p])
    /\ ~Truthy(inv[p].practitionerEmail)
    /\ Truthy(inv[p].api.defaultPractitionerEmail)
    /\ Eligible(inv[p]) # {}
    /\ inv[p].practitioner # inv[p].settings.Practitioners[1]
    /\ Mutations(inv[p]) # {}

\* the positions of the services the rule in force selects among: those
\* whose name contains the service name given, whatever the case of the
\* letters, else the one with the configured default id, else all
EligibleServices(r) ==
  { i \in 1..Len(r.settings.Services) :
      IF Truthy(r.serviceName)
        THEN Includes(toLowerCase(r.settings.Services[i].Name), toLowerCase(r.serviceName))
      ELSE IF Truthy(r.api.defaultServiceId)
        THEN r.settings.Services[i].Id = r.api.defaultServiceId
      ELSE TRUE }

(* C11: once the settings have answered and a practitioner is resolved, the *)
(* service used is the first whose name contains the service name given     *)
(* (case-insensitively) if one is given, else the one with the configured   *)
(* default id if one is configured, else the first; createAppointment       *)
(* carries its id; when the rule selects none the answer is success=false   *)
(* with the configured transfer number and createAppointment is not called. *)
ServiceByPriority ==
  \A p \in Invocations :
    (SettingsAnswered(inv[p]) /\ inv[p].practitioner # NullPractitioner) =>
      IF EligibleServices(inv[p]) = {}
      THEN /\ inv[p].service = NullService
           /\ inv[p].pc = "done"
           /\ Returned(inv[p]).success = FALSE
           /\ Returned(inv[p]).transferNumber = inv[p].api.transferNumber
           /\ OpsCalled(inv[p]) = <<"listClients", "getSettings">>
      ELSE /\ inv[p].service = inv[p].settings.Services[Min(EligibleServices(inv[p]))]
           /\ Len(inv[p].calls) = 3
           /\ inv[p].calls[3].op = "createAppointment"
           /\ inv[p].calls[3].arg.ServiceId = inv[p].service.Id

\* a service name written in another case selected a service that is not
\* the first one, and createAppointment was issued for it
NamedServiceChosen ==
  \E p \in Invocations :
    /\ SettingsAnswered(inv[p])
    /\ Truthy(inv[p].serviceName)
    /\ EligibleServices(inv[p]) # {}
    /\ inv[p].service # inv[p].settings.Services[1]
    /\ ~Includes(inv[p].service.Name, inv[p].serviceName)
    /\ Mutations(inv[p]) # {}

\* the Schedule flow has answered with success
ScheduleSucceeded(r) ==
  /\ InScheduleFlow(r)
  /\ r.pc = "done"
  /\ Returned(r).success = TRUE

(* C12: when the Schedule flow answers with success, the directory was      *)
(* asked for exactly one client and exactly one createAppointment was       *)
(* issued, carrying that client's id, the ids of the resolved practitioner  *)
(* and service, the resolved instant in UTC seconds, Status                 *)
(* WaitingConfirmation, SendClientEmailNotification true and ReminderType   *)
(* Email; the message names the client, the service and the practitioner.   *)
SuccessCreatesOneAppointment ==
  \A p \in Invocations :
    ScheduleSucceeded(inv[p]) =>
      /\ Len(inv[p].clients) = 1
      /\ OpsCalled(inv[p]) = <<"listClients", "getSettings", "createAppointment">>
      /\ inv[p].practitioner # NullPractitioner
      /\ inv[p].service # NullService
      /\ inv[p].appointmentDate \notin {NullDate, InvalidDate}
      /\ inv[p].calls[3].arg.ClientId = inv[p].clients[1].ClientId
      /\ inv[p].calls[3].arg.PractitionerId = inv[p].practitioner.Id
      /\ inv[p].calls[3].arg.ServiceId = inv[p].service.Id
      /\ inv[p].calls[3].arg.UtcDateTime
           = (inv[p].appointmentDate.day * MinutesPerDay + inv[p].appointmentDate.min) * 60
      /\ inv[p].calls[3].arg.Status = "WaitingConfirmation"
      /\ inv[p].calls[3].arg.SendClientEmailNotification = TRUE
      /\ inv[p].calls[3].arg.ReminderType = "Email"
      /\ Includes(Returned(inv[p]).message, inv[p].clients[1].Name)
      /\ Includes(Returned(inv[p]).message, inv[p].service.Name)
      /\ Includes(Returned(inv[p]).message, inv[p].practitioner.CompleteName)

\* a spoken command was scheduled with success
SpokenCommandScheduled ==
  \E p \in Invocations :
    /\ ScheduleSucceeded(inv[p])
    /\ inv[p].op = "processCommand"
    /\ Cardinality(Mutations(inv[p])) = 1

\* the command was classified as the action and its handler has run
Handled(r, action) ==
  /\ r.op = "processCommand"
  /\ r.pc # "idle"
  /\ r.intent.action = action

\* the invocation ended with this question and without any call
Asked(r, question) ==
  /\ r.pc = "done"
  /\ StartsWith(Returned(r).message, question)
  /\ Returned(r).success = FALSE
  /\ Returned(r).transferNumber = Undefined
  /\ r.calls = <<>>

(* C13: a Schedule command without a client name is answered by the         *)
(* question for the name, whether or not it has a date; one with a name     *)
(* and without a date by the question for the time, and that question is    *)
(* asked in no other case; a Send intake form command without an e-mail by  *)
(* the question for the e-mail. Each of these answers has success=false,    *)
(* no transfer number, and no call was made.                                *)
MissingSlotAsksWithoutCalling ==
  \A p \in Invocations :
    /\ Handled(inv[p], "SCHEDULE_APPOINTMENT") =>
         /\ ~Truthy(inv[p].intent.params.clientName) =>
              Asked(inv[p], "I'd be happy to schedule an appointment. What's the client's name?")
         /\ (Truthy(inv[p].intent.params.clientName)
               /\ ~Truthy(inv[p].intent.params.dateTime)) =>
              Asked(inv[p], "When would you like to schedule the appointment for "
                              \o inv[p].intent.params.clientName \o "?")
         /\ (inv[p].pc = "done"
               /\ StartsWith(Returned(inv[p]).message, "When would you like to schedule")) =>
              (Truthy(inv[p].intent.params.clientName)
                /\ ~Truthy(inv[p].intent.params.dateTime))
    /\ Handled(inv[p], "SEND_INTAKE_FORM") =>
         (~Truthy(inv[p].intent.params.clientEmail) =>
            Asked(inv[p], "I'd be happy to send an intake form. What's the client's email address?"))

\* a Schedule command with neither name nor date was asked for the name
NameAskedWithoutDate ==
  \E p \in Invocations :
    /\ Handled(inv[p], "SCHEDULE_APPOINTMENT")
    /\ ~Truthy(inv[p].intent.params.clientName)
    /\ ~Truthy(inv[p].intent.params.dateTime)
    /\ Asked(inv[p], "I'd be happy to schedule an appointment. What's the client's name?")

\* the calls of the invocation that carry the appointment id
CallsById(r, appointmentId) ==
  /\ r.calls # <<>>
  /\ r.calls[1] = Call("getAppointment", appointmentId)
  /\ \A k \in 2..Len(r.calls) : r.calls[k] = Call("cancelAppointment", appointmentId)
  /\ Len(r.calls) <= 2

(* C14: a Cancel command with an appointmentId slot enters the              *)
(* cancellation by that id: the appointment is fetched by that id and what  *)
(* is cancelled is that id; one with no id, no name and no date is asked    *)
(* for identifying details; one with no id and a name or a date is refused  *)
(* with a request for the id. The last two answers have success=false and   *)
(* no call was made.                                                        *)
CancelHasThreeOutcomes ==
  \A p \in Invocations :
    Handled(inv[p], "CANCEL_APPOINTMENT") =>
      IF Truthy(inv[p].intent.params.appointmentId)
        THEN CallsById(inv[p], inv[p].intent.params.appointmentId)
      ELSE IF ~Truthy(inv[p].intent.params.clientName)
                /\ ~Truthy(inv[p].intent.params.dateTime)
        THEN Asked(inv[p], "Which appointment would you like to cancel? Please provide the client name or appointment details.")
      ELSE Asked(inv[p], "I need more specific information to cancel that appointment. Could you provide the appointment ID or have someone transfer you to our scheduling team?")

\* a Cancel command with a name and no id was refused with a request for
\* the id
CancelRefusedForName ==
  \E p \in Invocations :
    /\ Handled(inv[p], "CANCEL_APPOINTMENT")
    /\ ~Truthy(inv[p].intent.params.appointmentId)
    /\ Truthy(inv[p].intent.params.clientName)
    /\ Asked(inv[p], "I need more specific information")

\* the transcript names the appointment by "appointment for <client>", and
\* so by the client alone
NamesClientOnly(r) ==
  Includes(toLowerCase(trim(r.transcript)), "appointment for ")

(* C15: a Cancel command that names the appointment by its client alone,    *)
(* like "Cancel appointment for John Smith", leaves the appointmentId slot  *)
(* undefined, issues neither getAppointment nor cancelAppointment, and is   *)
(* answered by the request for the id.                                      *)
CancelByNameNeverGuessesId ==
  \A p \in Invocations :
    (Handled(inv[p], "CANCEL_APPOINTMENT") /\ NamesClientOnly(inv[p])) =>
      /\ ~Truthy(inv[p].intent.params.appointmentId)
      /\ inv[p].calls = <<>>
      /\ Asked(inv[p], "I need more specific information to cancel that appointment.")

\* the question each of the two lookup handlers asks when it has no slot
LookupQuestion ==
  [FIND_CLIENT |-> "I'd be happy to find a client for you. What's their name or email address?",
   GET_CLIENT_INFO |-> "Which client would you like information about? Please provide their name or email address."]

(* C16: a Find client or Get client info command with an e-mail slot looks  *)
(* the client up by that e-mail and never searches by name, whether or not  *)
(* a name slot is present; one with a name slot only searches by that name  *)
(* and never looks up by e-mail; one with neither is asked for a name or    *)
(* an e-mail, with success=false and no call.                               *)
LookupByEmailFirst ==
  \A p \in Invocations, action \in DOMAIN LookupQuestion :
    Handled(inv[p], action) =>
      IF Truthy(inv[p].intent.params.clientEmail)
        THEN /\ inv[p].calls # <<>>
             /\ inv[p].calls[1] = Call("getClientByEmail", inv[p].intent.params.clientEmail)
             /\ \A k \in 1..Len(inv[p].calls) :
                  inv[p].calls[k].op \in {"getClientByEmail", "listAppointments"}
      ELSE IF Truthy(inv[p].intent.params.clientName)
        THEN /\ inv[p].calls # <<>>
             /\ inv[p].calls[1] = Call("listClients", inv[p].intent.params.clientName)
             /\ \A k \in 1..Len(inv[p].calls) :
                  inv[p].calls[k].op \in {"listClients", "listAppointments"}
      ELSE Asked(inv[p], LookupQuestion[action])

\* a command carrying both a name and an e-mail was looked up by e-mail
EmailPreferredToName ==
  \E p \in Invocations :
    /\ Handled(inv[p], "FIND_CLIENT")
    /\ Truthy(inv[p].intent.params.clientEmail)
    /\ Truthy(inv[p].intent.params.clientName)
    /\ inv[p].pc = "done"
    /\ inv[p].calls[1].op = "getClientByEmail"

\* a lookup by name or by e-mail found exactly one client and is over
FoundOneClient(r) ==
  /\ r.op = "processCommand"
  /\ r.intent.action \in {"FIND_CLIENT", "GET_CLIENT_INFO"}
  /\ r.pc = "done"
  /\ IF Truthy(r.intent.params.clientEmail)
       THEN r.client # NullClient
       ELSE Len(r.clients) = 1 /\ r.client = r.clients[1]

\* the confirmed appointments of the client among those the listing
\* returned; none when the listing failed
ConfirmedOfClient(r) ==
  IF r.appointments.kind # "ok" THEN {}
  ELSE { r.appointments.val[i] : i \in
           { j \in 1..Len(r.appointments.val) :
               /\ r.appointments.val[j].ClientId = r.client.ClientId
               /\ r.appointments.val[j].Status = "Confirmed" } }

(* C17: a lookup that found exactly one client has asked for the            *)
(* appointments of the 30 days from today and answers success=true,         *)
(* whatever the listing answered; its nextAppointment is a Confirmed        *)
(* appointment of that client which no other one of them precedes, and is   *)
(* null when the listing returned none of them or failed.                   *)
OneClientLookupSucceeds ==
  \A p \in Invocations :
    FoundOneClient(inv[p]) =>
      /\ inv[p].appointments.kind # "none"
      /\ inv[p].calls[Len(inv[p].calls)].op = "listAppointments"
      /\ inv[p].calls[Len(inv[p].calls)].arg.endDate
           = inv[p].calls[Len(inv[p].calls)].arg.startDate + 30
      /\ \E now \in Nows : inv[p].calls[Len(inv[p].calls)].arg.startDate = now.day
      /\ Returned(inv[p]).success = TRUE
      /\ Returned(inv[p]).data.client = inv[p].client
      /\ IF ConfirmedOfClient(inv[p]) = {}
           THEN Returned(inv[p]).data.nextAppointment = NullAppointment
           ELSE /\ Returned(inv[p]).data.nextAppointment \in ConfirmedOfClient(inv[p])
                /\ \A apt \in ConfirmedOfClient(inv[p]) :
                     Returned(inv[p]).data.nextAppointment.StartDate <= apt.StartDate

\* the client's earliest confirmed appointment was listed after a later one
EarliestListedLater ==
  \E p \in Invocations :
    /\ FoundOneClient(inv[p])
    /\ Cardinality(ConfirmedOfClient(inv[p])) >= 2
    /\ \E apt \in ConfirmedOfClient(inv[p]) :
         /\ apt.StartDate > Returned(inv[p]).data.nextAppointment.StartDate
         /\ \E i, j \in 1..Len(inv[p].appointments.val) :
              /\ i < j
              /\ inv[p].appointments.val[i] = apt
              /\ inv[p].appointments.val[j] = Returned(inv[p]).data.nextAppointment

\* the listing of a day's appointments was answered with a list
DayListed(r) ==
  /\ Handled(r, "CHECK_APPOINTMENTS")
  /\ r.pc = "done"
  /\ r.appointments.kind = "ok"

\* the day as the answer names it
DayText(r) ==
  IF Truthy(r.intent.params.date)
  THEN formatDateForSpeech(DateOf(r.calls[1].arg.startDate, 0))
  ELSE "today"

(* C18: when the directory returns no appointment for the target day,       *)
(* getUpcomingAppointments answers success=true, with the message that      *)
(* there are no confirmed appointments scheduled for that day and an empty  *)
(* data.appointments; without a date argument the day asked for is the      *)
(* current day and the message calls it "today".                            *)
EmptyDayIsNotAnError ==
  \A p \in Invocations :
    /\ (DayListed(inv[p]) /\ Len(inv[p].appointments.val) = 0) =>
         /\ Returned(inv[p]).success = TRUE
         /\ Returned(inv[p]).message
              = "There are no confirmed appointments scheduled for " \o DayText(inv[p]) \o "."
         /\ Returned(inv[p]).data.appointments = <<>>
    /\ (Handled(inv[p], "CHECK_APPOINTMENTS") /\ ~Truthy(inv[p].intent.params.date)) =>
         /\ inv[p].calls # <<>>
         /\ \E now \in Nows : inv[p].calls[1].arg.startDate = now.day

\* a command without a date was told that there are no appointments today
NoAppointmentsToday ==
  \E p \in Invocations :
    /\ DayListed(inv[p])
    /\ ~Truthy(inv[p].intent.params.date)
    /\ Len(inv[p].appointments.val) = 0
    /\ Includes(Returned(inv[p]).message, "no confirmed appointments scheduled for today")

\* the entry of the message for one appointment
SpokenLine(apt) ==
  formatTimeForSpeech(apt.StartDateIso) \o " - " \o apt.ClientName
    \o " with " \o apt.PractitionerName

\* the appointments of the answer, in the order of the answer
Answered(r) == Returned(r).data.appointments

(* C19: when the directory returns n >= 1 appointments,                     *)
(* getUpcomingAppointments has asked for the Confirmed appointments of one  *)
(* day (startDate = endDate); the appointments of the answer are those      *)
(* returned, in ascending order of start time, and the message lists the    *)
(* first min(n,5) of them, so the min(n,5) earliest, joined by commas.      *)
DayListingShowsFiveEarliest ==
  \A p \in Invocations :
    (DayListed(inv[p]) /\ Len(inv[p].appointments.val) >= 1) =>
      /\ Len(inv[p].calls) = 1
      /\ inv[p].calls[1].op = "listAppointments"
      /\ inv[p].calls[1].arg.status = "Confirmed"
      /\ inv[p].calls[1].arg.startDate = inv[p].calls[1].arg.endDate
      /\ Returned(inv[p]).success = TRUE
      /\ Len(Answered(inv[p])) = Len(inv[p].appointments.val)
      /\ { Answered(inv[p])[i] : i \in 1..Len(Answered(inv[p])) }
           = { inv[p].appointments.val[i] : i \in 1..Len(inv[p].appointments.val) }
      /\ \A i, j \in 1..Len(Answered(inv[p])) :
           i < j => Answered(inv[p])[i].StartDate <= Answered(inv[p])[j].StartDate
      /\ Returned(inv[p]).message
           = "Here are the confirmed appointments for " \o DayText(inv[p]) \o ": "
               \o Join([i \in 1..Min({Len(Answered(inv[p])), 5}) |->
                          SpokenLine(Answered(inv[p])[i])], ", ")

\* more than five appointments were returned, out of order, and the latest
\* one is not in the message
SixthAppointmentLeftOut ==
  \E p \in Invocations :
    /\ DayListed(inv[p])
    /\ Len(inv[p].appointments.val) > 5
    /\ Answered(inv[p]) # inv[p].appointments.val
    /\ ~Includes(Returned(inv[p]).message,
                 SpokenLine(Answered(inv[p])[Len(Answered(inv[p]))]))
    /\ Includes(Returned(inv[p]).message, SpokenLine(Answered(inv[p])[5]))

(* C20: a Check appointments command that names the day with the word       *)
(* "today", like "What appointments do we have today?", asks the directory  *)
(* for the Confirmed appointments of the current day, and answers           *)
(* success=true whenever the directory returns a list.                      *)
TodayCommandListsToday ==
  \A p \in Invocations :
    (Handled(inv[p], "CHECK_APPOINTMENTS")
       /\ Includes(toLowerCase(inv[p].transcript), "today")) =>
      /\ Len(inv[p].calls) = 1
      /\ inv[p].calls[1].op = "listAppointments"
      /\ inv[p].calls[1].arg.status = "Confirmed"
      /\ \E now \in Nows :
           /\ inv[p].calls[1].arg.startDate = now.day
           /\ inv[p].calls[1].arg.endDate = now.day
      /\ (inv[p].pc = "done" /\ inv[p].appointments.kind = "ok") =>
           Returned(inv[p]).success = TRUE

\* the positions of the templates whose name contains the form name given,
\* whatever the case of the letters
NamedTemplates(r) ==
  { i \in 1..Len(r.questionnaires.val) :
      Includes(toLowerCase(r.questionnaires.val[i].Name), toLowerCase(r.serviceName)) }

\* the templates have been listed in the Send intake form flow
TemplatesListed(r) ==
  /\ Handled(r, "SEND_INTAKE_FORM")
  /\ r.questionnaires.kind = "ok"

(* C21: once the templates are listed, the Send intake form flow uses the   *)
(* first template whose name contains the form name given                   *)
(* (case-insensitively), else the first available one, and goes on to the   *)
(* practitioners; only when no template is available does it fail for lack  *)
(* of a template, with success=false, the configured transfer number and    *)
(* no sendQuestionnaire call.                                               *)
TemplateFailsOnlyWithoutTemplates ==
  \A p \in Invocations :
    TemplatesListed(inv[p]) =>
      IF Len(inv[p].questionnaires.val) = 0
      THEN /\ inv[p].pc = "done"
           /\ Returned(inv[p]).success = FALSE
           /\ Returned(inv[p]).transferNumber = inv[p].api.transferNumber
           /\ Mutations(inv[p]) = {}
      ELSE /\ inv[p].questionnaire
                = (IF Truthy(inv[p].serviceName) /\ NamedTemplates(inv[p]) # {}
                   THEN inv[p].questionnaires.val[Min(NamedTemplates(inv[p]))]
                   ELSE inv[p].questionnaires.val[1])
           /\ Len(inv[p].calls) >= 3
           /\ inv[p].calls[3].op = "listPractitioners"

\* the categories whose handler is not implemented
Unimplemented == {"RESCHEDULE_APPOINTMENT", "CHECK_INTAKE_STATUS", "CHECK_AVAILABILITY"}

(* C22: a command classified RESCHEDULE_APPOINTMENT, CHECK_INTAKE_STATUS or *)
(* CHECK_AVAILABILITY is answered at once, whatever its slots and the       *)
(* configuration, by a message that transfers the caller to a person, with  *)
(* success=false, and no directory call is made.                            *)
UnimplementedTransfersWithoutCalling ==
  \A p \in Invocations, action \in Unimplemented :
    Handled(inv[p], action) =>
      /\ inv[p].pc = "done"
      /\ Includes(Returned(inv[p]).message, "Let me transfer you to")
      /\ Returned(inv[p]).success = FALSE
      /\ inv[p].calls = <<>>

\* a reschedule command that carries an appointment id was transferred
RescheduleWithIdTransferred ==
  \E p \in Invocations :
    /\ Handled(inv[p], "RESCHEDULE_APPOINTMENT")
    /\ Truthy(inv[p].intent.params.appointmentId)
    /\ inv[p].api.transferNumber # Undefined
    /\ inv[p].pc = "done"
    /\ Returned(inv[p]).success = FALSE

\* the transcript contains one of the phrases, whatever the case
Says(r, phrases) ==
  \E ph \in phrases : Includes(toLowerCase(r.transcript), ph)

\* the invocation ended with this message and this success, without a call
Answers(r, opening, ok) ==
  /\ r.pc = "done"
  /\ StartsWith(Returned(r).message, opening)
  /\ Returned(r).success = ok
  /\ r.calls = <<>>

(* C23: a command classified UNKNOWN that contains a greeting phrase is     *)
(* answered by the greeting with success=true, even when it also asks for   *)
(* help; else one that contains a help phrase by the capability summary     *)
(* with success=true; any other by the generic fallback with                *)
(* success=false; no call is made in any of the three. "hello there" is     *)
(* classified UNKNOWN and greeted.                                          *)
UnknownGreetsThenHelps ==
  \A p \in Invocations :
    /\ Handled(inv[p], "UNKNOWN") =>
         IF Says(inv[p], {"hello", "hi", "hey", "good morning", "good afternoon"})
           THEN Answers(inv[p], "Hello! I'm here to help with", TRUE)
         ELSE IF Says(inv[p], {"help", "what can you do", "how do you work"})
           THEN Answers(inv[p], "I can help you schedule appointments, find client information", TRUE)
         ELSE Answers(inv[p], "I'm not sure how to help with that.", FALSE)
    /\ (inv[p].op = "processCommand" /\ inv[p].transcript = "hello there") =>
         /\ inv[p].intent.action = "UNKNOWN"
         /\ Answers(inv[p], "Hello! I'm here to help with", TRUE)

\* a greeting that also asks for help was greeted
GreetingBeforeHelp ==
  \E p \in Invocations :
    /\ Handled(inv[p], "UNKNOWN")
    /\ Says(inv[p], {"hello"})
    /\ Says(inv[p], {"help"})
    /\ Answers(inv[p], "Hello!", TRUE)

\* phone numbers as a directory may hold them
PhoneSamples ==
  {"5551234567", "555-123-4567", "(555) 123-4567", "555-1234", "5551234",
   "+1 555 123 4567", "555.123.4567 x2"}

\* the phone number spoken digit by digit: in groups of 3, 3 and 4 when it
\* has ten digits, and without grouping otherwise
SpokenDigits(phone) ==
  IF Len(DigitsOnly(phone)) = 10
  THEN Spaced(SubSeq(DigitsOnly(phone), 1, 3)) \o ", "
         \o Spaced(SubSeq(DigitsOnly(phone), 4, 6)) \o ", "
         \o Spaced(SubSeq(DigitsOnly(phone), 7, 10))
  ELSE Spaced(DigitsOnly(phone))

(* C24: formatPhoneForSpeech gives the ten digits of a number grouped 3-3-4 *)
(* ("5551234567" and "555-123-4567" give "5 5 5, 1 2 3, 4 5 6 7"), and for  *)
(* a number that has not ten digits its digits one by one without grouping, *)
(* with none of its other characters; so does the phone number in the       *)
(* answer of a lookup by name.                                              *)
PhoneSpokenDigitByDigit ==
  \A p \in Invocations :
    (FoundOneClient(inv[p]) /\ ~Truthy(inv[p].intent.params.clientEmail)) =>
      /\ formatPhoneForSpeech("5551234567") = "5 5 5, 1 2 3, 4 5 6 7"
      /\ formatPhoneForSpeech("555-123-4567") = "5 5 5, 1 2 3, 4 5 6 7"
      /\ \A phone \in PhoneSamples \cup {inv[p].client.Phone} :
           formatPhoneForSpeech(phone) = SpokenDigits(phone)
      /\ Truthy(inv[p].client.Phone) =>
           Includes(Returned(inv[p]).message,
                    "phone number is " \o SpokenDigits(inv[p].client.Phone))

\* the slots the methods of the invocation were called with are those of
\* the intent extracted from its own transcript
OwnSlots(r) ==
  r.op = "processCommand" =>
    /\ r.clientName \in {Undefined, r.intent.params.clientName}
    /\ r.clientEmail \in {Undefined, r.intent.params.clientEmail}
    /\ r.appointmentId \in {Undefined, r.intent.params.appointmentId}
    /\ r.date \in {Undefined, r.intent.params.date}

(* C25: with two requests in flight and updateConfig called at any moment,  *)
(* a request starts with the configuration of the server at that moment     *)
(* and keeps it unchanged to its end, updateConfig leaving every request    *)
(* as it is; the transfer number of its response is the one of that         *)
(* configuration; a step of one request changes nothing of the other, and   *)
(* each request holds the intent and the slots of its own transcript.       *)
ConfigFixedPerRequest ==
  [][\A p \in DOMAIN inv :
       /\ (inv[p].pc = "idle" /\ inv'[p].pc # "idle") =>
            /\ inv'[p].api = server.voiceApi
            /\ inv'[p].op = "processCommand" =>
                 inv'[p].intent = extractIntent(inv'[p].transcript)
       /\ inv[p].pc # "idle" =>
            /\ inv'[p].api = inv[p].api
            /\ inv'[p].intent = inv[p].intent
            /\ inv'[p].transcript = inv[p].transcript
       /\ server' # server => inv' = inv
       /\ inv'[p] # inv[p] => \A q \in DOMAIN inv \ {p} : inv'[q] = inv[q]
       /\ inv'[p].pc = "done" =>
            Returned(inv'[p]).transferNumber \in {Undefined, inv'[p].api.transferNumber}
       /\ inv'[p].pc # "idle" => OwnSlots(inv'[p])]_vars

\* a request that was suspended when the configuration was updated ended
\* with the transfer number it started with, while another request with
\* another intent was in flight
EndedWithOldTransferNumber ==
  \E p, q \in DOMAIN inv :
    /\ p # q
    /\ inv[p].pc = "done"
    /\ inv[p].api # server.voiceApi
    /\ Returned(inv[p]).transferNumber = inv[p].api.transferNumber
    /\ Returned(inv[p]).transferNumber # server.voiceApi.transferNumber
    /\ inv[q].pc \notin {"idle", "done"}
    /\ inv[q].api = server.voiceApi
    /\ inv[q].intent.action # inv[p].intent.action

\* the transcript as extractIntent reads it
Heard(r) == toLowerCase(trim(r.transcript))

DateTimeSlot(r) == r.intent.params.dateTime

InMutatingWorkflow(r) ==
  \/ r.op = "scheduleAppointment"
  \/ /\ r.op = "processCommand"
     /\ r.intent.action \in {"SCHEDULE_APPOINTMENT", "CANCEL_APPOINTMENT", "SEND_INTAKE_FORM"}

\* a mutating call was issued and the directory answered it with a value
MutationDone(r) ==
  \E k \in Mutations(r) : k <= Len(r.answers) /\ r.answers[k] = "ok"

InCancelFlow(r) == Handled(r, "CANCEL_APPOINTMENT") /\ r.calls # <<>>

(* C29: a cancellation first fetches the appointment by the id it was       *)
(* given, and issues the directory's cancel, for the same id, only after    *)
(* that lookup answered with an appointment; when the lookup answers with   *)
(* nothing the response is the not-found text with success=false and no     *)
(* transferNumber, and no cancel is issued; when the lookup or the cancel   *)
(* throws the response has success=false and the configured transferNumber. *)
CancelLooksUpFirst ==
  \A p \in Invocations :
    InCancelFlow(inv[p]) =>
      /\ CallsById(inv[p], inv[p].appointmentId)
      /\ inv[p].appointmentId = inv[p].intent.params.appointmentId
      /\ Len(inv[p].calls) = 2 =>
           /\ inv[p].answers[1] = "ok"
           /\ inv[p].appointment # NullAppointment
      /\ (Len(inv[p].answers) >= 1 /\ inv[p].answers[1] = "null") =>
           /\ inv[p].pc = "done"
           /\ Len(inv[p].calls) = 1
           /\ StartsWith(Returned(inv[p]).message, "I couldn't find that appointment.")
           /\ Returned(inv[p]).success = FALSE
           /\ Returned(inv[p]).transferNumber = Undefined
      /\ (\E k \in 1..Len(inv[p].answers) : inv[p].answers[k] = "throw") =>
           /\ inv[p].pc = "done"
           /\ inv[p].settled = "resolved"
           /\ Returned(inv[p]).success = FALSE
           /\ Returned(inv[p]).transferNumber = inv[p].api.transferNumber

MissingAppointmentNotTransferred ==
  \E p \in Invocations :
    /\ InCancelFlow(inv[p])
    /\ inv[p].pc = "done"
    /\ inv[p].api.transferNumber # Undefined
    /\ inv[p].calls = <<Call("getAppointment", "apt-1")>>
    /\ inv[p].answers = <<"null">>
    /\ Returned(inv[p]).transferNumber = Undefined

\* the invocation runs sendIntakeForm
InIntakeFlow(r) == Handled(r, "SEND_INTAKE_FORM") /\ r.calls # <<>>

IntakeOrder ==
  <<"getClientByEmail", "listQuestionnaireTemplates", "listPractitioners", "sendQuestionnaire">>

\* the practitioners listed for the invocation that have the default e-mail
DefaultSenders(r) ==
  IF r.practitioners.kind # "ok" THEN {}
  ELSE { i \in 1..Len(r.practitioners.val) :
           r.practitioners.val[i].Email = r.api.defaultPractitionerEmail }

(* C30: the send-intake workflow issues its calls in the order              *)
(* getClientByEmail, listQuestionnaireTemplates, listPractitioners,         *)
(* sendQuestionnaire, each only after every earlier one answered with a     *)
(* value; sendQuestionnaire, carrying the ids of the three, is issued only  *)
(* for a client found by that e-mail, a template taken from the list and a  *)
(* practitioner taken from the list: the one with the configured default    *)
(* e-mail if one is configured, else the first; and when the configured     *)
(* default e-mail matches no listed practitioner the workflow fails with    *)
(* the transfer number and sends nothing, even if practitioners are listed. *)
IntakeCallsInOrder ==
  \A p \in Invocations :
    InIntakeFlow(inv[p]) =>
      /\ Len(inv[p].calls) <= 4
      /\ OpsCalled(inv[p]) = SubSeq(IntakeOrder, 1, Len(inv[p].calls))
      /\ inv[p].calls[1].arg = inv[p].clientEmail
      /\ \A k \in 1..(Len(inv[p].calls) - 1) : inv[p].answers[k] = "ok"
      /\ Len(inv[p].calls) = 4 =>
           /\ inv[p].client # NullClient
           /\ \E i \in 1..Len(inv[p].questionnaires.val) :
                inv[p].questionnaire = inv[p].questionnaires.val[i]
           /\ IF Truthy(inv[p].api.defaultPractitionerEmail)
              THEN inv[p].practitioner.Email = inv[p].api.defaultPractitionerEmail
              ELSE inv[p].practitioner = inv[p].practitioners.val[1]
           /\ \E i \in 1..Len(inv[p].practitioners.val) :
                inv[p].practitioner = inv[p].practitioners.val[i]
           /\ inv[p].calls[4].arg =
                [ClientId |-> inv[p].client.ClientId,
                 QuestionnaireId |-> inv[p].questionnaire.Id,
                 PractitionerId |-> inv[p].practitioner.Id]
      /\ (/\ inv[p].practitioners.kind = "ok"
          /\ Truthy(inv[p].api.defaultPractitionerEmail)
          /\ DefaultSenders(inv[p]) = {}) =>
           /\ inv[p].pc = "done"
           /\ Len(inv[p].calls) = 3
           /\ StartsWith(Returned(inv[p]).message, "I couldn't find an available practitioner.")
           /\ Returned(inv[p]).success = FALSE
           /\ Returned(inv[p]).transferNumber = inv[p].api.transferNumber

UnknownDefaultSenderFails ==
  \E p \in Invocations :
    /\ InIntakeFlow(inv[p])
    /\ inv[p].pc = "done"
    /\ inv[p].api.defaultPractitionerEmail = "nobody@clinic.com"
    /\ inv[p].practitioners.kind = "ok"
    /\ Len(inv[p].practitioners.val) = MaxPractitioners
    /\ OpsCalled(inv[p]) = SubSeq(IntakeOrder, 1, 3)
    /\ Returned(inv[p]).success = FALSE


====
